---------------------------- MODULE Spec2Model ----------------------------
(***************************************************************************)
(* Model of the substance / protocol matching pipelines of spacy_matching. *)
(*                                                                         *)
(* Text is modelled as a sequence of characters, each character being a    *)
(* one-symbol string.  Characters outside ASCII are written as symbols:    *)
(* "a:" is a-umlaut, "o:" is o-umlaut, "A~" and "(cur)" are the two        *)
(* characters of the mis-encoded a-umlaut found in the current source,     *)
(* "^2" is superscript two and "(tm)" is the trade mark sign.              *)
(* A missing value (None / NaN) is the one-element sequence Null.          *)
(***************************************************************************)
EXTENDS Integers, Sequences, FiniteSets, TLC

VARIABLES
    pc,                 \* position in the pipeline being run
    chain,              \* "current" or "legacy": which utils module runs
    input_col,          \* the free-text column handed to the pipeline
    df,                 \* data frame of preprocess_data: rows [ID, Original, Preprocessed_text]
    pass1,              \* Preprocessed_text of the first application (re-application runs)
    matches,            \* per row: the raw hit list returned by the fuzzy matcher
    threshold,          \* threshold parameter, in hundredths (85 stands for 0.85)
    max_per_match_id,   \* cap per canonical entry
    only_first_match,   \* the only_first_match flag of the get_matches call under way
    results,            \* get_matches: list of result rows built by the row loop
    out_atomic,         \* frame returned with only_first_match=True
    out_multi,          \* frame returned with only_first_match=False
    prev_kept,          \* candidate selector: candidates kept by the previous call
    prev_threshold,     \* candidate selector: threshold of the previous call
    matches_df,         \* legacy: frame returned by get_matches
    selected,           \* legacy: frame returned by select_matches
    outcome,            \* legacy: "ok", or the ValueError raised by create_service_variable
    df_data,            \* protocol: record-side frame (rows of slot tuples)
    df_references,      \* protocol: the caller's reference table
    merged_df           \* protocol: frame returned by merge_frame

vars == <<pc, chain, input_col, df, pass1, matches, threshold, max_per_match_id,
          only_first_match, results, out_atomic, out_multi, prev_kept, prev_threshold,
          matches_df, selected, outcome, df_data, df_references, merged_df>>

normVars == <<matches, threshold, max_per_match_id, only_first_match, results, out_atomic, out_multi,
              prev_kept, prev_threshold, matches_df, selected, outcome,
              df_data, df_references, merged_df>>

-----------------------------------------------------------------------------
(* Characters and strings *)

Null == <<"<NaN>">>

IsNull(v) == v = Null

UpperCase == <<"A", "B", "C", "D", "E", "F", "G", "H", "I", "J", "K", "L", "M",
               "N", "O", "P", "Q", "R", "S", "T", "U", "V", "W", "X", "Y", "Z">>

LowerCase == <<"a", "b", "c", "d", "e", "f", "g", "h", "i", "j", "k", "l", "m",
               "n", "o", "p", "q", "r", "s", "t", "u", "v", "w", "x", "y", "z">>

Digits == {"0", "1", "2", "3", "4", "5", "6", "7", "8", "9"}

Range(s) == {s[i] : i \in DOMAIN s}

\* str.lower() / re.IGNORECASE folding of one character
Lower(c) ==
    IF \E i \in DOMAIN UpperCase : UpperCase[i] = c
    THEN LowerCase[CHOOSE i \in DOMAIN UpperCase : UpperCase[i] = c]
    ELSE c

LowerStr(s) == [i \in DOMAIN s |-> Lower(s[i])]

\* \w of the re module (str patterns): alphanumeric characters and underscore
WordChars ==
    Range(UpperCase) \cup Range(LowerCase) \cup Digits \cup {"_", "a:", "o:", "A~", "^2"}

IsWordChar(c) == c \in WordChars

\* \s, and the characters str.split() / str.strip() treat as whitespace
IsSpace(c) == c \in {" ", "\t"}

\* \b between positions i-1 and i of text (1-based; i may be Len(text)+1)
WordBoundary(text, i) ==
    LET before == i > 1 /\ IsWordChar(text[i - 1])
        after  == i <= Len(text) /\ IsWordChar(text[i])
    IN  before # after

\* a literal pattern matches text at position i, ignoring case; "." in the
\* pattern is the regex wildcard
MatchAt(p, text, i) ==
    /\ i + Len(p) - 1 <= Len(text)
    /\ \A j \in DOMAIN p : p[j] = "." \/ Lower(text[i + j - 1]) = Lower(p[j])

\* index of the first alternative of alts that matches at i, 0 if none
FirstMatch(alts, text, i) ==
    IF \E k \in DOMAIN alts : MatchAt(alts[k], text, i)
    THEN CHOOSE k \in DOMAIN alts :
            /\ MatchAt(alts[k], text, i)
            /\ \A l \in 1..(k - 1) : ~MatchAt(alts[l], text, i)
    ELSE 0

RECURSIVE SubAlt(_, _, _, _)
\* re.sub(alt1|alt2|..., repl, text, flags=re.IGNORECASE) from position i on:
\* leftmost match, first alternative that matches, non-overlapping
SubAlt(alts, repl, text, i) ==
    IF i > Len(text) THEN <<>>
    ELSE LET k == FirstMatch(alts, text, i)
         IN  IF k = 0
             THEN <<text[i]>> \o SubAlt(alts, repl, text, i + 1)
             ELSE repl \o SubAlt(alts, repl, text, i + Len(alts[k]))

RECURSIVE LStrip(_)
LStrip(s) == IF s # <<>> /\ IsSpace(Head(s)) THEN LStrip(Tail(s)) ELSE s

RECURSIVE RStrip(_)
RStrip(s) ==
    IF s # <<>> /\ IsSpace(s[Len(s)]) THEN RStrip(SubSeq(s, 1, Len(s) - 1)) ELSE s

\* str.strip()
Strip(s) == LStrip(RStrip(s))

RECURSIVE SplitFrom(_, _, _)
\* str.split(): the maximal runs of non-whitespace characters
SplitFrom(s, i, word) ==
    IF i > Len(s) THEN (IF word = <<>> THEN <<>> ELSE <<word>>)
    ELSE IF IsSpace(s[i])
         THEN (IF word = <<>> THEN <<>> ELSE <<word>>) \o SplitFrom(s, i + 1, <<>>)
         ELSE SplitFrom(s, i + 1, Append(word, s[i]))

Split(s) == SplitFrom(s, 1, <<>>)

RECURSIVE Join(_, _)
\* sep.join(words)
Join(sep, words) ==
    IF words = <<>> THEN <<>>
    ELSE IF Len(words) = 1 THEN words[1]
    ELSE words[1] \o sep \o Join(sep, Tail(words))

RECURSIVE SelectWords(_)
SelectWords(words) ==
    IF words = <<>> THEN <<>>
    ELSE (IF Len(Head(words)) >= 3 THEN <<Head(words)>> ELSE <<>>)
         \o SelectWords(Tail(words))

\* remove_short_words (same body in the current and the legacy module)
remove_short_words(text) == Join(<<" ">>, SelectWords(Split(text)))

-----------------------------------------------------------------------------
(* Normalizer: the helper functions of utils.py and utils_old.py *)

NA == <<"N", "A">>

Fluorouracil == <<"f", "l", "u", "o", "r", "o", "u", "r", "a", "c", "i", "l">>

\* the alternatives of the 5-FU pattern, in the order of the source
FluorouracilPattern == <<
    <<"5", " ", "f", "u">>,
    <<"5", "f", "u">>,
    <<"5", "-", "f", "u">>,
    <<"5", "_", "f", "u">>,
    <<"F", "l", "u", "o", "r", "u", "r", "a", "c", "i", "l">>,
    <<"f", "l", "o", "u", "r", "o", "u", "r", "a", "c", "i", "l">>,
    <<"5", "-", "f", "l", "u", "o", "r", "u", "u", "r", "a", "c", "i", "l">>,
    <<"5", "-", "f", "l", "u", "o", "r", "o", "-", "u", "r", "a", "c", "i", "l">>,
    <<"5", "-", "f", "l", "u", "o", "r", "u", "u", "r", "a", "c", "i", "l">>,
    <<"5", "-", "f", "l", "u", "o", "r", "u", "r", "a", "c", "i", "l">>,
    <<"f", "l", "o", "u", "r", "u", "r", "a", "c", "i", "l">>,
    <<"5", "-", "f", "l", "u", "o", "r", "o", "u", "n", "a", "c", "i", "l">>,
    <<"f", "l", "o", "u", "r", "o", "u", "r", "a", "c", "i">>,
    <<"5", "-", "f", "l", "u", "o", "u", "r", "o", "u", "r", "a", "c", "i", "l">> >>

\* find_5FU (same pattern in the current and the legacy module)
find_5FU(text) == SubAlt(FluorouracilPattern, Fluorouracil, text, 1)

Calciumfolinat == <<"C", "a", "l", "c", "i", "u", "m", "f", "o", "l", "i", "n", "a", "t">>

\* the replacement literal as it stands in the current source file
Folinsaeure == <<"f", "o", "l", "i", "n", "s", "A~", "(cur)", "u", "r", "e">>

\* the replacement literal of the legacy source file
Folinsaeure_old == <<"f", "o", "l", "i", "n", "s", "a:", "u", "r", "e">>

\* length matched by \b(Calciumfolinat)\b at position i, 0 if no match
CalciumMatchLen(text, i) ==
    IF /\ WordBoundary(text, i)
       /\ MatchAt(Calciumfolinat, text, i)
       /\ WordBoundary(text, i + Len(Calciumfolinat))
    THEN Len(Calciumfolinat) ELSE 0

RECURSIVE CalciumSub(_, _, _)
CalciumSub(repl, text, i) ==
    IF i > Len(text) THEN <<>>
    ELSE LET n == CalciumMatchLen(text, i)
         IN  IF n = 0 THEN <<text[i]>> \o CalciumSub(repl, text, i + 1)
             ELSE repl \o CalciumSub(repl, text, i + n)

calciumfolinat_to_folin(text) == CalciumSub(Folinsaeure, text, 1)

calciumfolinat_to_folin_old(text) == CalciumSub(Folinsaeure_old, text, 1)

Gemcibatin == <<"G", "e", "m", "c", "i", "b", "a", "t", "i", "n">>

Gemcitabin == <<"g", "e", "m", "c", "i", "t", "a", "b", "i", "n">>

SpaceMono == <<" ", "M", "o", "n", "o">>

\* length matched by Gemcibatin(?:e)?(?: Mono)? at position i, 0 if no match:
\* both optional groups are greedy and nothing follows them
GemcitabinMatchLen(text, i) ==
    IF ~MatchAt(Gemcibatin, text, i) THEN 0
    ELSE LET n1 == Len(Gemcibatin)
             n2 == IF MatchAt(<<"e">>, text, i + n1) THEN n1 + 1 ELSE n1
         IN  IF MatchAt(SpaceMono, text, i + n2) THEN n2 + Len(SpaceMono) ELSE n2

RECURSIVE GemcitabinSub(_, _)
GemcitabinSub(text, i) ==
    IF i > Len(text) THEN <<>>
    ELSE LET n == GemcitabinMatchLen(text, i)
         IN  IF n = 0 THEN <<text[i]>> \o GemcitabinSub(text, i + 1)
             ELSE Gemcitabin \o GemcitabinSub(text, i + n)

\* find_gemcitabin of the current module
find_gemcitabin(text) == GemcitabinSub(text, 1)

\* the alternatives of the legacy pattern, in the order of the source
GemcitabinPattern_old == <<
    <<"G", "e", "m", "c", "i", "b", "a", "t", "i", "n">>,
    <<"G", "e", "m", "c", "i", "b", "a", "t", "i", "n", "e">>,
    <<"G", "e", "m", "c", "i", "b", "a", "t", "i", "n", "e", " ", "M", "o", "n", "o">>,
    <<"G", "e", "m", "c", "i", "b", "a", "t", "i", "n", " ", "M", "o", "n", "o">> >>

\* find_gemcitabin of the legacy module
find_gemcitabin_old(text) == SubAlt(GemcitabinPattern_old, Gemcitabin, text, 1)

Nab == <<"n", "a", "b">>

Paclitaxel == <<"P", "a", "c", "l", "i", "t", "a", "x", "e", "l">>

PaclitaxelNab == <<"P", "a", "c", "l", "i", "t", "a", "x", "e", "l", " ", "n", "a", "b">>

\* length matched by \bnab[\s\-]?Paclitaxel\b at position i, 0 if no match
NabMatchLen(text, i) ==
    IF ~(WordBoundary(text, i) /\ MatchAt(Nab, text, i)) THEN 0
    ELSE LET j == i + Len(Nab)
             withSep == /\ j <= Len(text)
                        /\ (IsSpace(text[j]) \/ text[j] = "-")
                        /\ MatchAt(Paclitaxel, text, j + 1)
                        /\ WordBoundary(text, j + 1 + Len(Paclitaxel))
             noSep   == /\ MatchAt(Paclitaxel, text, j)
                        /\ WordBoundary(text, j + Len(Paclitaxel))
         IN  IF withSep THEN Len(Nab) + 1 + Len(Paclitaxel)
             ELSE IF noSep THEN Len(Nab) + Len(Paclitaxel)
             ELSE 0

RECURSIVE PaclitaxelSub(_, _)
PaclitaxelSub(text, i) ==
    IF i > Len(text) THEN <<>>
    ELSE LET n == NabMatchLen(text, i)
         IN  IF n = 0 THEN <<text[i]>> \o PaclitaxelSub(text, i + 1)
             ELSE PaclitaxelNab \o PaclitaxelSub(text, i + n)

\* find_Paclitaxel_nab of the current module
find_Paclitaxel_nab(text) == PaclitaxelSub(text, 1)

\* length matched by nab-Paclitaxel|nabPaclitaxel|\b(nab[\s\-]?Paclitaxel)\b
NabMatchLen_old(text, i) ==
    IF MatchAt(Nab \o <<"-">> \o Paclitaxel, text, i) THEN Len(Nab) + 1 + Len(Paclitaxel)
    ELSE IF MatchAt(Nab \o Paclitaxel, text, i) THEN Len(Nab) + Len(Paclitaxel)
    ELSE NabMatchLen(text, i)

RECURSIVE PaclitaxelSub_old(_, _)
PaclitaxelSub_old(text, i) ==
    IF i > Len(text) THEN <<>>
    ELSE LET n == NabMatchLen_old(text, i)
         IN  IF n = 0 THEN <<text[i]>> \o PaclitaxelSub_old(text, i + 1)
             ELSE PaclitaxelNab \o PaclitaxelSub_old(text, i + n)

\* find_Paclitaxel_nab of the legacy module
find_Paclitaxel_nab_old(text) == PaclitaxelSub_old(text, 1)

\* the alternatives of unwanted_words_pattern, in the order of the source
UnwantedWords == <<
    <<"w", "o:", "c", "h", "e", "n", "t", "l", "i", "c", "h">>,
    <<"w", "e", "e", "k", "l", "y">>,
    <<"w", "o", "c", "h", "e">>,
    <<"a", "l", "l", "g", "e", "m", "e", "i", "n">>,
    <<"e", "n", "t", "s", "p", "r", "e", "c", "h", "e", "n", "d">>,
    <<"b", "e", "e", "n", "d", "e", "t">>,
    <<"z", "y", "k", "l", "u", "s">>,
    <<"v", "e", "r", "s", "i", "o", "n">>,
    <<"b", "i", "s">>,
    <<"m", "g">>,
    <<"k", "g">>,
    <<"m", "2">>,
    <<"b", "e", "z", "e", "i", "c", "h", "n", "e", "t">>,
    <<"e", "n", "t", "f", "a:", "l", "l", "t">>,
    <<"o", ".", "n", ".", "a", ".">>,
    <<"o", ".", "n", ".", "a">>,
    <<"i", ".", "v", ".">>,
    <<"i", ".", "v">> >>

remove_unwanted_words(text) == SubAlt(UnwantedWords, <<>>, text, 1)

\* the characters of the model's alphabet that lie in the Unicode ranges of
\* special_symbols_pattern
SpecialSymbols == {"(tm)"}

RECURSIVE SpecialSub(_, _)
\* re.sub(special_symbols_pattern, "", text): case-sensitive
SpecialSub(text, i) ==
    IF i > Len(text) THEN <<>>
    ELSE IF text[i] \in SpecialSymbols THEN SpecialSub(text, i + 1)
    ELSE IF text[i] = "m" /\ i < Len(text) /\ text[i + 1] = "^2"
         THEN SpecialSub(text, i + 2)
    ELSE <<text[i]>> \o SpecialSub(text, i + 1)

remove_special_symbols(text) == SpecialSub(text, 1)

RECURSIVE RStripChar(_, _)
\* str.rstrip(c)
RStripChar(s, c) ==
    IF s # <<>> /\ s[Len(s)] = c THEN RStripChar(SubSeq(s, 1, Len(s) - 1), c) ELSE s

RECURSIVE LStripChar(_, _)
\* str.lstrip(c)
LStripChar(s, c) == IF s # <<>> /\ Head(s) = c THEN LStripChar(Tail(s), c) ELSE s

RemoveChars(s, cs) == SelectSeq(s, LAMBDA c : c \notin cs)

remove_trailing_leading_characters(text) ==
    LET remove_trailings == RStripChar(RStripChar(text, ","), ";")
        remove_leadings  == LStripChar(LStripChar(remove_trailings, ","), ";")
        remove_brackets  == RemoveChars(remove_leadings, {"(", ")"})
    IN  Strip(remove_brackets)

\* a missing cell turned into text by astype(str) alone
PrepareCell_nofill(v) == Strip(IF IsNull(v) THEN <<"n", "a", "n">> ELSE v)

\* prepare_free_text of the current module, one cell of the column:
\* fillna("NA").replace("", "NA"), then astype(str).str.strip()
PrepareCell(v) == Strip(IF IsNull(v) \/ v = <<>> THEN NA ELSE v)

\* prepare_free_text of the legacy module, one cell of a column of strings:
\* replace({pd.NA: "NA", "": "NA"})
PrepareCell_old(v) == IF IsNull(v) \/ v = <<>> THEN NA ELSE v

\* the .apply chain of preprocess_data (current module) on one cell
PreprocessCell(original) ==
    Strip(remove_short_words(calciumfolinat_to_folin(find_Paclitaxel_nab(
        find_gemcitabin(find_5FU(original))))))

\* the .apply chain of preprocess_data (legacy module) on one cell
PreprocessCell_old(original) ==
    remove_trailing_leading_characters(remove_special_symbols(remove_short_words(
        calciumfolinat_to_folin_old(find_Paclitaxel_nab_old(find_gemcitabin_old(
            find_5FU(remove_unwanted_words(original))))))))

\* a column from which the missing cells have been dropped
prepare_free_text_dropna(col) ==
    LET present == SelectSeq(col, LAMBDA v : ~IsNull(v))
    IN  [k \in 1..Len(present) |-> [ID |-> k, Original |-> PrepareCell(present[k])]]

prepare_free_text(col) ==
    [k \in 1..Len(col) |-> [ID |-> k, Original |-> PrepareCell(col[k])]]

prepare_free_text_old(col) ==
    [k \in 1..Len(col) |-> [ID |-> k, Original |-> PrepareCell_old(col[k])]]

\* preprocess_data of the current module: rows [ID, Original, Preprocessed_text]
preprocess_data(col) ==
    LET frame == prepare_free_text(col)
    IN  [k \in DOMAIN frame |->
            [ID |-> frame[k].ID, Original |-> frame[k].Original,
             Preprocessed_text |-> PreprocessCell(frame[k].Original)]]

\* preprocess_data of the legacy module
preprocess_data_old(col) ==
    LET frame == prepare_free_text_old(col)
    IN  [k \in DOMAIN frame |->
            [ID |-> frame[k].ID, Original |-> frame[k].Original,
             Preprocessed_text |-> PreprocessCell_old(frame[k].Original)]]


-----------------------------------------------------------------------------
(* Specification SpecNorm: the normalizer applied, and applied again, to one
   free-text cell *)

MaxFragments == 3

\* pieces the free texts of the normalizer runs are put together from
Fragments == {
    <<"5">>, <<"-">>, <<"_">>, <<" ">>, <<"f", "u">>, <<"F", "U">>,
    <<"n", "a", "b">>, Paclitaxel, <<"n", "a", "b", "-">> \o Paclitaxel,
    Gemcibatin, <<"e">>, SpaceMono, <<"a", "b">>, Calciumfolinat,
    <<",">>, <<";">>, <<"b", "i", "s">>, <<"(tm)">> }

RECURSIVE Texts(_)
\* all texts made of at most n fragments
Texts(n) ==
    IF n = 0 THEN {<<>>}
    ELSE Texts(n - 1) \cup {t \o f : t \in Texts(n - 1), f \in Fragments}

\* a frame without rows and columns
EmptyFrame == [columns |-> <<>>, rows |-> <<>>]

Idle ==
    /\ matches = <<>>
    /\ threshold = 0
    /\ max_per_match_id = 0
    /\ only_first_match = FALSE
    /\ results = <<>>
    /\ out_atomic = EmptyFrame
    /\ out_multi = EmptyFrame
    /\ prev_kept = <<>>
    /\ prev_threshold = 0
    /\ matches_df = <<>>
    /\ selected = <<>>
    /\ outcome = "none"
    /\ df_data = <<>>
    /\ df_references = <<>>
    /\ merged_df = <<>>

NormInit ==
    /\ pc = "start"
    /\ chain \in {"current", "legacy"}
    /\ \E x \in Texts(MaxFragments) \cup (IF chain = "current" THEN {Null} ELSE {}) :
          input_col = <<x>>
    /\ df = <<>>
    /\ pass1 = <<>>
    /\ Idle

\* preprocess_data of the current module on the whole column
PreprocessData ==
    /\ pc = "start"
    /\ chain = "current"
    /\ df' = preprocess_data(input_col)
    /\ pc' = "preprocessed"
    /\ UNCHANGED <<chain, input_col, pass1>>

\* preprocess_data of the legacy module on the whole column
PreprocessDataOld ==
    /\ pc = "start"
    /\ chain = "legacy"
    /\ df' = preprocess_data_old(input_col)
    /\ pc' = "preprocessed"
    /\ UNCHANGED <<chain, input_col, pass1>>

\* the preprocessed column is handed to the normalizer once more
Reapply ==
    /\ pc = "preprocessed"
    /\ pass1 = <<>>
    /\ pass1' = [k \in 1..Len(df) |-> df[k].Preprocessed_text]
    /\ input_col' = pass1'
    /\ pc' = "start"
    /\ UNCHANGED <<chain, df>>

NormNext ==
    \/ PreprocessData /\ UNCHANGED normVars
    \/ PreprocessDataOld /\ UNCHANGED normVars
    \/ Reapply /\ UNCHANGED normVars

SpecNorm == NormInit /\ [][NormNext]_vars

\* C4: the normalizer is idempotent: once the preprocessed text has been
\* normalized again, the result is the text of the first application, in the
\* current and in the legacy chain.
NormalizeIdempotent ==
    (pc = "preprocessed" /\ pass1 # <<>>) =>
        \A k \in 1..Len(df) : df[k].Preprocessed_text = pass1[k]

FiveFU == {<<"5", "-", "F", "U">>, <<"5", "f", "u">>, <<"5", "_", "F", "U">>}

GemcibatinVariants ==
    {Gemcibatin \o SpaceMono, Gemcibatin \o <<"e">>, Gemcibatin \o <<"e">> \o SpaceMono}

\* C8: in both normalizers "5-FU", "5fu" and "5_FU" normalize to exactly
\* "fluorouracil", and "Gemcibatin Mono", "Gemcibatine" and "Gemcibatine Mono"
\* to exactly "gemcitabin".
AbbreviationRewrite ==
    (pc = "preprocessed" /\ pass1 = <<>>) =>
        /\ input_col[1] \in FiveFU => df[1].Preprocessed_text = Fluorouracil
        /\ input_col[1] \in GemcibatinVariants => df[1].Preprocessed_text = Gemcitabin


-----------------------------------------------------------------------------
(* Candidate selector: get_matches of the current module *)

\* the hundredths h for which the double h/100 * 100 is greater than h
RoundsUp == {7, 14, 28, 55, 56}

\* m[3] >= threshold * 100, for the threshold thr/100 and an integer ratio
AtLeastThreshold(ratio, thr) == IF thr \in RoundsUp THEN ratio > thr ELSE ratio >= thr

\* doc = nlp(text): the tokens of the text (whitespace-separated words)
Tokens(text) == Split(text)

\* doc[start:end].text
SpanText(doc, start, end) == Join(<<" ">>, SubSeq(doc, start + 1, end))

\* matches_filtered
FilteredMatches(ms, thr) == SelectSeq(ms, LAMBDA m : AtLeastThreshold(m.ratio, thr))

RECURSIVE InsertDesc(_, _)

RECURSIVE InsertDesc_before(_, _)
\* m inserted in front of the elements of its own ratio
InsertDesc_before(sorted, m) ==
    IF sorted = <<>> THEN <<m>>
    ELSE IF Head(sorted).ratio > m.ratio
         THEN <<Head(sorted)>> \o InsertDesc_before(Tail(sorted), m)
         ELSE <<m>> \o sorted

\* m inserted behind every element whose ratio is at least m's
InsertDesc(sorted, m) ==
    IF sorted = <<>> THEN <<m>>
    ELSE IF Head(sorted).ratio >= m.ratio
         THEN <<Head(sorted)>> \o InsertDesc(Tail(sorted), m)
         ELSE <<m>> \o sorted

RECURSIVE SortDesc(_, _)
SortDesc(ms, acc) == IF ms = <<>> THEN acc ELSE SortDesc(Tail(ms), InsertDesc(acc, Head(ms)))

\* the filtered hits left in the order of the matcher
SortedMatches_unsorted(ms) == ms

\* matches_sorted = sorted(matches_filtered, key=ratio, reverse=True): a stable
\* sort, elements of equal ratio keep their order
SortedMatches(ms) == SortDesc(ms, <<>>)

\* match_id_counts.get(match_id, 0)
CountOf(counts, match_id) == IF match_id \in DOMAIN counts THEN counts[match_id] ELSE 0

CapReached_above(count, cap) == count > cap

\* count >= max_per_match_id
CapReached(count, cap) == count >= cap

RECURSIVE WalkMatches(_, _, _, _, _)
\* the loop over matches_sorted: kept lists the triples numbered 1, 2, ...
WalkMatches(doc, sorted, cap, counts, kept) ==
    IF sorted = <<>> THEN kept
    ELSE LET m     == Head(sorted)
             count == CountOf(counts, m.match_id)
         IN  IF CapReached(count, cap)
             THEN WalkMatches(doc, Tail(sorted), cap, counts, kept)
             ELSE WalkMatches(doc, Tail(sorted), cap,
                     [id \in DOMAIN counts \cup {m.match_id} |->
                         IF id = m.match_id THEN count + 1 ELSE counts[id]],
                     Append(kept, [Hit |-> SpanText(doc, m.start, m.end),
                                   Mapped_to |-> m.match_id,
                                   Similarity |-> m.ratio]))

\* the body of the row loop of get_matches: the result_row of one record
ResultRow(row, ms, thr, cap) ==
    LET doc == Tokens(row.Preprocessed_text)
    IN  [Original |-> row.Original,
         Preprocessed |-> row.Preprocessed_text,
         kept |-> WalkMatches(doc, SortedMatches(FilteredMatches(ms, thr)), cap, <<>>, <<>>)]

Cisplatin == <<"C", "i", "s", "p", "l", "a", "t", "i", "n">>

GemcitabinName == <<"G", "e", "m", "c", "i", "t", "a", "b", "i", "n">>

\* ref_substance.dropna().astype(str): the labels added to the matcher
Vocabulary == {Cisplatin, GemcitabinName}

\* similarity ratios the matcher reports in the model
Ratios == {80, 85, 90}

Thresholds == {85, 90}

MaxCap == 2

\* one raw hit (match_id, start, end, ratio, pattern) of matcher(doc)
Hits(doc, ratios) ==
    [match_id : Vocabulary, start : 0..(Len(doc) - 1), end : 1..Len(doc), ratio : ratios]

SeqsUpTo(S, n) == UNION {[1..k -> S] : k \in 0..n}

\* what matcher(doc) may return: up to n hits on spans of the doc
MatcherResults(doc, ratios, n) ==
    SeqsUpTo({h \in Hits(doc, ratios) : h.start < h.end}, n)


-----------------------------------------------------------------------------
(* Specification SpecSelect: get_matches called on one record, and called
   again on the same record and the same raw hits with another threshold *)

MaxHits == 3

SelectText == Cisplatin \o <<" ">> \o GemcitabinName

selectVars == <<chain, input_col, df, pass1, only_first_match, out_atomic, out_multi,
                matches_df, selected, outcome, df_data, df_references, merged_df>>

SelectInit ==
    /\ pc = "select"
    /\ chain = "current"
    /\ input_col = <<SelectText>>
    /\ df = preprocess_data(input_col)
    /\ pass1 = <<>>
    /\ \E ms \in MatcherResults(Tokens(df[1].Preprocessed_text), Ratios, MaxHits) :
          matches = <<ms>>
    /\ threshold \in Thresholds
    /\ max_per_match_id \in 0..MaxCap
    /\ results = <<>>
    /\ prev_kept = <<>>
    /\ prev_threshold = 0
    /\ only_first_match = FALSE
    /\ out_atomic = EmptyFrame
    /\ out_multi = EmptyFrame
    /\ matches_df = <<>>
    /\ selected = <<>>
    /\ outcome = "none"
    /\ df_data = <<>>
    /\ df_references = <<>>
    /\ merged_df = <<>>

\* one pass of the row loop of get_matches
SelectRow ==
    /\ pc = "select"
    /\ results' = Append(results,
                     ResultRow(df[1], matches[1], threshold, max_per_match_id))
    /\ pc' = "selected"
    /\ UNCHANGED <<matches, threshold, max_per_match_id, prev_kept, prev_threshold>>

\* get_matches is called again with another threshold
CallAgain ==
    /\ pc = "selected"
    /\ prev_threshold = 0
    /\ prev_kept' = results[1].kept
    /\ prev_threshold' = threshold
    /\ \E t \in Thresholds \ {threshold} : threshold' = t
    /\ results' = <<>>
    /\ pc' = "select"
    /\ UNCHANGED <<matches, max_per_match_id>>

SelectNext ==
    \/ SelectRow /\ UNCHANGED selectVars
    \/ CallAgain /\ UNCHANGED selectVars

SpecSelect == SelectInit /\ [][SelectNext]_vars

\* number of kept candidates mapped to the canonical entry id
KeptOf(kept, id) == Cardinality({i \in DOMAIN kept : kept[i].Mapped_to = id})

IsPrefix(s, t) == Len(s) <= Len(t) /\ SubSeq(t, 1, Len(s)) = s

\* C3: for the same record, raw hits and cap, the candidates kept at the
\* higher threshold are a prefix of (so no more than) those kept at the lower.
ThresholdMonotone ==
    (pc = "selected" /\ prev_threshold # 0) =>
        /\ prev_threshold <= threshold => IsPrefix(results[1].kept, prev_kept)
        /\ threshold <= prev_threshold => IsPrefix(prev_kept, results[1].kept)

\* C3 witness: raising the threshold removed candidates, and some remain
ThresholdMonotoneWitness ==
    /\ pc = "selected"
    /\ prev_threshold # 0
    /\ prev_threshold < threshold
    /\ results[1].kept # <<>>
    /\ Len(results[1].kept) < Len(prev_kept)


-----------------------------------------------------------------------------
(* The frame returned by get_matches *)

OriginalCol == <<"O", "r", "i", "g", "i", "n", "a", "l">>

PreprocessedCol == <<"P", "r", "e", "p", "r", "o", "c", "e", "s", "s", "e", "d">>

HitName == <<"H", "i", "t">>

MappedName == <<"M", "a", "p", "p", "e", "d", "_", "t", "o">>

SimilarityName == <<"S", "i", "m", "i", "l", "a", "r", "i", "t", "y">>

DigitChars == <<"0", "1", "2", "3", "4", "5", "6", "7", "8", "9">>

RECURSIVE DigitStr(_)
\* the decimal digits of n, as the f-string writes them
DigitStr(n) ==
    IF n < 10 THEN <<DigitChars[n + 1]>>
    ELSE DigitStr(n \div 10) \o <<DigitChars[(n % 10) + 1]>>

\* f"Hit{i}", f"Mapped_to{i}", f"Similarity{i}"
Numbered(name, i) == name \o DigitStr(i)

\* a cell holding the value v, and the cell pandas fills in for an absent key
Cell(v) == [na |-> FALSE, v |-> v]

NaN == [na |-> TRUE]

RECURSIVE TripleKeys(_)
\* the keys Hit1, Mapped_to1, Similarity1, Hit2, ... a row with n triples wrote
TripleKeys(n) ==
    IF n = 0 THEN <<>>
    ELSE TripleKeys(n - 1)
         \o <<Numbered(HitName, n), Numbered(MappedName, n), Numbered(SimilarityName, n)>>

\* the keys of a result_row, in insertion order
RowKeys(r) == <<OriginalCol, PreprocessedCol>> \o TripleKeys(Len(r.kept))

RECURSIVE UnionKeys(_, _)
\* the columns of pd.DataFrame(results): all keys, in order of first appearance
UnionKeys(rows, cols) ==
    IF rows = <<>> THEN cols
    ELSE UnionKeys(Tail(rows),
                   cols \o SelectSeq(RowKeys(Head(rows)), LAMBDA c : c \notin Range(cols)))

\* the value a result_row holds under key c, NaN if it has no such key
RowValue(r, c) ==
    IF c = OriginalCol THEN Cell(r.Original)
    ELSE IF c = PreprocessedCol THEN Cell(r.Preprocessed)
    ELSE IF \E i \in DOMAIN r.kept : c = Numbered(HitName, i)
         THEN Cell(r.kept[CHOOSE i \in DOMAIN r.kept : c = Numbered(HitName, i)].Hit)
    ELSE IF \E i \in DOMAIN r.kept : c = Numbered(MappedName, i)
         THEN Cell(r.kept[CHOOSE i \in DOMAIN r.kept : c = Numbered(MappedName, i)].Mapped_to)
    ELSE IF \E i \in DOMAIN r.kept : c = Numbered(SimilarityName, i)
         THEN Cell(r.kept[CHOOSE i \in DOMAIN r.kept :
                             c = Numbered(SimilarityName, i)].Similarity)
    ELSE NaN

\* out = pd.DataFrame(results)
DataFrame(rs) ==
    LET cols == UnionKeys(rs, <<>>)
    IN  [columns |-> cols,
         rows |-> [k \in 1..Len(rs) |-> [c \in Range(cols) |-> RowValue(rs[k], c)]]]

RECURSIVE StripTrailingDigits(_)
\* re.sub(r"\d+$", "", col)
StripTrailingDigits(name) ==
    IF name # <<>> /\ name[Len(name)] \in Digits
    THEN StripTrailingDigits(SubSeq(name, 1, Len(name) - 1))
    ELSE name

ColsToKeep_second ==
    <<OriginalCol, PreprocessedCol, Numbered(HitName, 2), Numbered(MappedName, 2),
      Numbered(SimilarityName, 2)>>

ColsToKeep ==
    <<OriginalCol, PreprocessedCol, Numbered(HitName, 1), Numbered(MappedName, 1),
      Numbered(SimilarityName, 1)>>

\* the only_first_match branch of get_matches
AtomicView(out) ==
    LET available == SelectSeq(ColsToKeep, LAMBDA c : c \in Range(out.columns))
        renamed   == [i \in DOMAIN available |-> StripTrailingDigits(available[i])]
    IN  [columns |-> renamed,
         rows |-> [k \in DOMAIN out.rows |->
                     [c \in Range(renamed) |->
                         out.rows[k][available[CHOOSE i \in DOMAIN renamed :
                                                  renamed[i] = c]]]]]

-----------------------------------------------------------------------------
(* Specification Spec: the substance pipeline of main.py on a batch of
   records: preprocess_data, then get_matches with only_first_match=True and
   again with only_first_match=False *)

MaxRecords == 2

MaxBatchHits == 2

\* the free-text cells of the batches: missing, empty, and a text
InputValues == {Null, <<>>, Cisplatin \o <<" ", "a", "b">>}

\* the hits the matcher reports in the batch runs: ratio per canonical entry
BatchRatio(id) == IF id = Cisplatin THEN {90} ELSE {85}

BatchMatcherResults(doc) ==
    {ms \in MatcherResults(doc, Ratios, MaxBatchHits) :
        \A i \in DOMAIN ms : ms[i].ratio \in BatchRatio(ms[i].match_id)}

batchVars == <<pass1, prev_kept, prev_threshold, matches_df, selected, outcome,
               df_data, df_references, merged_df>>

Init ==
    /\ pc = "start"
    /\ chain = "current"
    /\ input_col \in SeqsUpTo(InputValues, MaxRecords)
    /\ df = <<>>
    /\ pass1 = <<>>
    /\ matches = <<>>
    /\ threshold \in Thresholds
    /\ max_per_match_id \in 0..MaxCap
    /\ only_first_match = TRUE
    /\ results = <<>>
    /\ out_atomic = EmptyFrame
    /\ out_multi = EmptyFrame
    /\ prev_kept = <<>>
    /\ prev_threshold = 0
    /\ matches_df = <<>>
    /\ selected = <<>>
    /\ outcome = "none"
    /\ df_data = <<>>
    /\ df_references = <<>>
    /\ merged_df = <<>>

\* one pass of the row loop of get_matches, on the row after the last one
\* done; the matcher answers the same text with the same hits in both calls
GetMatchesRow ==
    /\ pc = "preprocessed"
    /\ Len(results) < Len(df)
    /\ LET k == Len(results) + 1
       IN  /\ IF k > Len(matches)
              THEN \E ms \in BatchMatcherResults(Tokens(df[k].Preprocessed_text)) :
                      matches' = Append(matches, ms)
              ELSE UNCHANGED matches
           /\ results' = Append(results,
                            ResultRow(df[k], matches'[k], threshold, max_per_match_id))
    /\ UNCHANGED <<pc, chain, input_col, df, threshold, max_per_match_id,
                   only_first_match, out_atomic, out_multi>>

\* the end of get_matches: the frame is built and returned, cut down to the
\* first match when only_first_match is set; then the second call starts
GetMatchesReturn ==
    /\ pc = "preprocessed"
    /\ Len(results) = Len(df)
    /\ IF only_first_match
       THEN /\ out_atomic' = AtomicView(DataFrame(results))
            /\ only_first_match' = FALSE
            /\ results' = <<>>
            /\ UNCHANGED <<pc, out_multi>>
       ELSE /\ out_multi' = DataFrame(results)
            /\ pc' = "done"
            /\ UNCHANGED <<only_first_match, results, out_atomic>>
    /\ UNCHANGED <<chain, input_col, df, matches, threshold, max_per_match_id>>

\* nlp(text) or matcher(doc) raises in the row loop of get_matches: the loop has
\* no handler, the exception leaves get_matches and no frame is returned
GetMatchesRaises ==
    /\ pc = "preprocessed"
    /\ Len(results) < Len(df)
    /\ pc' = "raised"
    /\ outcome' = "raised"
    /\ UNCHANGED <<chain, input_col, df, matches, threshold, max_per_match_id,
                   only_first_match, results, out_atomic, out_multi>>
    /\ UNCHANGED <<pass1, prev_kept, prev_threshold, matches_df, selected,
                   df_data, df_references, merged_df>>

Next ==
    \/ PreprocessData /\ UNCHANGED <<matches, threshold, max_per_match_id,
                                     only_first_match, results, out_atomic, out_multi>>
                      /\ UNCHANGED batchVars
    \/ GetMatchesRow /\ UNCHANGED batchVars
    \/ GetMatchesReturn /\ UNCHANGED batchVars
    \/ GetMatchesRaises

Spec == Init /\ [][Next]_vars


HitColumns == {HitName, MappedName, SimilarityName}

\* C1: preprocess_data followed by get_matches returns exactly one row per
\* input record, in input order: row k carries the Original of the record that
\* prepare_free_text numbered ID k, in both output modes.
OneRowPerRecord ==
    pc = "done" =>
        /\ Len(out_multi.rows) = Len(input_col)
        /\ Len(out_atomic.rows) = Len(input_col)
        /\ \A k \in 1..Len(input_col) :
              /\ df[k].ID = k
              /\ df[k].Original = PrepareCell(input_col[k])
              /\ out_multi.rows[k][OriginalCol] = Cell(df[k].Original)
              /\ out_atomic.rows[k][OriginalCol] = Cell(df[k].Original)

\* C1 witness: a batch of a missing record, which has no candidate, and of a
\* record with candidates has been returned
OneRowPerRecordWitness ==
    /\ pc = "done"
    /\ Len(input_col) = 2
    /\ input_col[1] = Null
    /\ input_col[2] # input_col[1]
    /\ results[1].kept = <<>>
    /\ Len(results[2].kept) = 2

\* C7 as stated: a missing or empty input field has Preprocessed_text "NA"
\* and no candidate.
NullPreprocessedIsSentinel ==
    pc = "done" =>
        \A k \in 1..Len(input_col) :
            input_col[k] \in {Null, <<>>} =>
                /\ df[k].Preprocessed_text = NA
                /\ results[k].kept = <<>>

\* C7 amended: a missing or empty input field has Original "NA" and the empty
\* string as Preprocessed_text, and its row of the returned frames has no hit.
NullSafety ==
    pc = "done" =>
        \A k \in 1..Len(input_col) :
            input_col[k] \in {Null, <<>>} =>
                /\ df[k].Original = NA
                /\ df[k].Preprocessed_text = <<>>
                /\ results[k].kept = <<>>
                /\ out_multi.rows[k][OriginalCol] = Cell(NA)
                /\ out_multi.rows[k][PreprocessedCol] = Cell(<<>>)
                /\ \A c \in Range(out_multi.columns) \ {OriginalCol, PreprocessedCol} :
                      out_multi.rows[k][c] = NaN
                /\ \A c \in Range(out_atomic.columns) \ {OriginalCol, PreprocessedCol} :
                      out_atomic.rows[k][c] = NaN

\* C7 witness: an empty field went through the pipeline in a batch whose
\* frame has hit columns
NullSafetyWitness ==
    /\ pc = "done"
    /\ Len(input_col) = 2
    /\ input_col[2] = <<>>
    /\ Numbered(HitName, 1) \in Range(out_multi.columns)
    /\ HitName \in Range(out_atomic.columns)

\* C9: the frame returned with only_first_match=True holds, for every record,
\* the triple numbered 1 of the frame returned with only_first_match=False,
\* under the names Hit, Mapped_to, Similarity (empty for a record without
\* candidate), and the same Original and Preprocessed.
AtomicIsFirstTriple ==
    pc = "done" =>
        /\ Len(out_atomic.rows) = Len(out_multi.rows)
        /\ Range(out_atomic.columns) \subseteq {OriginalCol, PreprocessedCol} \cup HitColumns
        /\ \A c \in {OriginalCol, PreprocessedCol} :
              /\ c \in Range(out_atomic.columns) <=> c \in Range(out_multi.columns)
              /\ c \in Range(out_atomic.columns) =>
                    \A k \in DOMAIN out_multi.rows :
                        out_atomic.rows[k][c] = out_multi.rows[k][c]
        /\ \A name \in HitColumns :
              /\ name \in Range(out_atomic.columns)
                    <=> Numbered(name, 1) \in Range(out_multi.columns)
              /\ name \in Range(out_atomic.columns) =>
                    \A k \in DOMAIN out_multi.rows :
                        /\ out_atomic.rows[k][name] = out_multi.rows[k][Numbered(name, 1)]
                        /\ results[k].kept = <<>> => out_atomic.rows[k][name] = NaN
        /\ \A k \in DOMAIN out_multi.rows :
              results[k].kept # <<>> =>
                  /\ out_atomic.rows[k][HitName] = Cell(results[k].kept[1].Hit)
                  /\ out_atomic.rows[k][MappedName] = Cell(results[k].kept[1].Mapped_to)
                  /\ out_atomic.rows[k][SimilarityName] = Cell(results[k].kept[1].Similarity)

\* C9 witness: a batch of a record with two candidates, whose first triple
\* differs from its second, and of a record without candidate
AtomicIsFirstTripleWitness ==
    /\ pc = "done"
    /\ Len(results) = 2
    /\ Len(results[1].kept) = 2
    /\ results[1].kept[1].Mapped_to # results[1].kept[2].Mapped_to
    /\ results[2].kept = <<>>
    /\ out_atomic.rows[2][HitName] = NaN


-----------------------------------------------------------------------------
(* Legacy pipeline: get_matches, select_best_rows and select_matches of
   utils_old.py, create_service_variable of main_old.py.
   A row of the frames is [ID, input, match, matched_to, similarity]; the
   similarity column, which holds ratios and the placeholder "", is held as
   the text astype(str) writes. *)

\* the placeholder row of a record without hit above the threshold
NoMatchRow(row) ==
    [ID |-> row.ID, input |-> row.Preprocessed_text, match |-> <<>>,
     matched_to |-> <<>>, similarity |-> <<>>]

\* ratio > threshold_parameter
AboveThreshold(ratio, thr) == ratio > thr

RECURSIVE HitRows(_, _, _, _)
\* the loop over the matches of one record
HitRows(row, doc, ms, thr) ==
    IF ms = <<>> THEN <<>>
    ELSE (IF AboveThreshold(Head(ms).ratio, thr)
          THEN <<[ID |-> row.ID, input |-> row.Preprocessed_text,
                  match |-> SpanText(doc, Head(ms).start, Head(ms).end),
                  matched_to |-> Head(ms).pattern,
                  similarity |-> DigitStr(Head(ms).ratio)]>>
          ELSE <<>>)
         \o HitRows(row, doc, Tail(ms), thr)

\* the rows get_matches appends for one record
RecordRows(row, ms, thr) ==
    LET rows == HitRows(row, Tokens(row.Preprocessed_text), ms, thr)
    IN  IF rows = <<>> THEN <<NoMatchRow(row)>> ELSE rows

\* all orders of the elements of a sequence
Orders(s) == {[i \in DOMAIN s |-> s[p[i]]] : p \in Permutations(DOMAIN s)}

RECURSIVE SortedByID(_)
\* sort_values(by="ID") of a frame given as its groups in ascending ID order:
\* the default sort (quicksort) is not stable, so the rows of one ID come out
\* in any order
SortedByID(groups) ==
    IF groups = <<>> THEN {<<>>}
    ELSE {g \o rest : g \in Orders(Head(groups)), rest \in SortedByID(Tail(groups))}

\* the rows of a frame that carry the given ID, in frame order
RowsOf(frame, id) == SelectSeq(frame, LAMBDA r : r.ID = id)

\* the IDs of a frame
IDs(frame) == {frame[i].ID : i \in DOMAIN frame}

RECURSIVE AscendingSeq(_)
\* the elements of a set of integers in ascending order
AscendingSeq(S) ==
    IF S = {} THEN <<>>
    ELSE LET least == CHOOSE x \in S : \A y \in S : x <= y
         IN  <<least>> \o AscendingSeq(S \ {least})

\* the groups of groupby("ID"): ascending keys, rows in frame order
GroupsByID(frame) ==
    LET keys == AscendingSeq(IDs(frame))
    IN  [i \in DOMAIN keys |-> RowsOf(frame, keys[i])]

\* the outcomes of get_matches of the legacy module for the frame of
\* preprocess_data and the hit lists mss returned by the matcher, row by row
get_matches_old(frame, mss, thr) ==
    SortedByID([k \in DOMAIN frame |-> RecordRows(frame[k], mss[k], thr)])

Und == <<"u", "n", "d">>

Oder == <<"o", "d", "e", "r">>

\* str.contains(r"[/,;+]|\bund\b|\boder\b", case=False, regex=True)
ContainsSplit(text) ==
    \E i \in DOMAIN text :
        \/ text[i] \in {"/", ",", ";", "+"}
        \/ /\ WordBoundary(text, i) /\ MatchAt(Und, text, i)
           /\ WordBoundary(text, i + Len(Und))
        \/ /\ WordBoundary(text, i) /\ MatchAt(Oder, text, i)
           /\ WordBoundary(text, i + Len(Oder))

\* a in b, for strings
IsSubstring(a, b) ==
    \E i \in 0..(Len(b) - Len(a)) : SubSeq(b, i + 1, i + Len(a)) = a

Min2(a, b) == IF a <= b THEN a ELSE b

MinOf(S) == CHOOSE m \in S : \A x \in S : m <= x

\* the next row of the edit-distance table: prev is the row of the prefix
\* without its last character c; t holds, column by column, the cheaper of
\* deleting c and substituting it, and a column is reached from any column
\* to its left by insertions
LevRow(prev, c, b) ==
    CHOOSE row \in
        {<<>> \o [j \in DOMAIN t |-> MinOf({t[k] + (j - k) : k \in 1..j})] :
            t \in {<<>> \o [k \in DOMAIN prev |->
                        IF k = 1 THEN prev[1] + 1
                        ELSE Min2(prev[k] + 1,
                                  prev[k - 1] + (IF c = b[k - 1] THEN 0 ELSE 1))]}} : TRUE

RECURSIVE LevTable(_, _, _, _)
\* the last row of the edit-distance table of a and b, built row by row
LevTable(a, b, i, prev) ==
    IF i > Len(a) THEN prev
    ELSE CHOOSE last \in {LevTable(a, b, i + 1, row) : row \in {LevRow(prev, a[i], b)}} : TRUE

\* Levenshtein.distance(a, b)
Levenshtein(a, b) == LevTable(a, b, 1, [j \in 1..(Len(b) + 1) |-> j - 1])[Len(b) + 1]

\* the three columns select_matches computes for a row of select_df
exact_match(r) == IF r.input = r.matched_to THEN 1 ELSE 0

detected_match(r) == IF IsSubstring(LowerStr(r.input), LowerStr(r.matched_to)) THEN 1 ELSE 0

Carboplatin == <<"C", "a", "r", "b", "o", "p", "l", "a", "t", "i", "n">>

CisplatinMono == Cisplatin \o SpaceMono

\* the reference substances handed to the legacy matcher
Vocabulary_old == {Cisplatin, CisplatinMono, Carboplatin}

Cisplatn == <<"C", "i", "s", "p", "l", "a", "t", "n">>

\* free texts of the legacy runs: a reference substance, a misspelt one and
\* one with a split indicator
Texts_old == {Cisplatin, Cisplatn, Cisplatin \o <<"+">> \o Carboplatin}

\* Levenshtein.distance of the texts and reference entries of the legacy runs,
\* computed once
LevenshteinOf ==
    {<<p[1], p[2], Levenshtein(p[1], p[2])>> : p \in Texts_old \X Vocabulary_old}

LV_distance(r) ==
    IF \E t \in LevenshteinOf : t[1] = r.input /\ t[2] = r.matched_to
    THEN (CHOOSE t \in LevenshteinOf : t[1] = r.input /\ t[2] = r.matched_to)[3]
    ELSE Levenshtein(r.input, r.matched_to)

\* a row of select_df: the row of the frame and the three columns
WithColumns(r) ==
    [ID |-> r.ID, input |-> r.input, match |-> r.match, matched_to |-> r.matched_to,
     similarity |-> r.similarity, exact_match |-> exact_match(r),
     detected_match |-> detected_match(r), LV_distance |-> LV_distance(r)]

\* best_matches[matches_found_df.columns.tolist()], for one row
FrameColumns(r) ==
    [ID |-> r.ID, input |-> r.input, match |-> r.match, matched_to |-> r.matched_to,
     similarity |-> r.similarity]

\* the first position of a 0/1 column that holds 1
FirstOne(col) == CHOOSE i \in DOMAIN col : col[i] = 1 /\ \A j \in 1..(i - 1) : col[j] # 1

\* group[group["exact_match"] == 1]
Exact(group) == SelectSeq(group, LAMBDA r : r.exact_match = 1)

\* group[group["detected_match"] == 1]
Detected(group) == SelectSeq(group, LAMBDA r : r.detected_match = 1)

\* the last row that holds the minimum
MinLVRow_last(group) ==
    group[CHOOSE i \in DOMAIN group :
            \A j \in DOMAIN group :
                \/ group[i].LV_distance < group[j].LV_distance
                \/ (group[i].LV_distance = group[j].LV_distance /\ i >= j)]

\* group.loc[group["LV_distance"].idxmin()]: the first row that holds the minimum
MinLVRow(group) ==
    group[CHOOSE i \in DOMAIN group :
            \A j \in DOMAIN group :
                \/ group[i].LV_distance < group[j].LV_distance
                \/ (group[i].LV_distance = group[j].LV_distance /\ i <= j)]

select_best_rows_detected_first(group) ==
    IF Detected(group) # <<>> THEN Detected(group)[1]
    ELSE IF Exact(group) # <<>> THEN Exact(group)[1]
    ELSE MinLVRow(group)

\* select_best_rows: exact match, else containment, else the first row of
\* minimal edit distance
select_best_rows(group) ==
    IF Exact(group) # <<>> THEN Exact(group)[1]
    ELSE IF Detected(group) # <<>> THEN Detected(group)[1]
    ELSE MinLVRow(group)

RECURSIVE Dedup(_, _)
\* list(dict.fromkeys(xs)): first occurrences, order kept
Dedup(xs, seen) ==
    IF xs = <<>> THEN <<>>
    ELSE IF Head(xs) \in seen THEN Dedup(Tail(xs), seen)
    ELSE <<Head(xs)>> \o Dedup(Tail(xs), seen \cup {Head(xs)})

SemicolonSpace == <<";", " ">>

\* the aggregation of the rows of one ID
Collapse(group) ==
    [ID |-> group[1].ID,
     input |-> group[1].input,
     match |-> Join(SemicolonSpace, [i \in DOMAIN group |-> group[i].match]),
     matched_to |-> Join(SemicolonSpace,
                         Dedup([i \in DOMAIN group |-> group[i].matched_to], {})),
     similarity |-> Join(SemicolonSpace,
                         Dedup([i \in DOMAIN group |-> group[i].similarity], {}))]

\* the rows of every ID with more than one row, split indicator or not
SelectRows_all(mdf) ==
    LET counted == SelectSeq(mdf, LAMBDA r : Len(RowsOf(mdf, r.ID)) > 1)
    IN  [i \in DOMAIN counted |-> WithColumns(counted[i])]

\* the rows select_matches hands to the tie-break, before they are sorted:
\* no split indicator in the input and more than one row of the ID; the
\* three columns depend on the row alone and are attached here
SelectRows(mdf) ==
    LET df_with_pattern == SelectSeq(mdf, LAMBDA r : ~ContainsSplit(r.input))
        counted         == SelectSeq(df_with_pattern,
                                     LAMBDA r : Len(RowsOf(df_with_pattern, r.ID)) > 1)
    IN  [i \in DOMAIN counted |-> WithColumns(counted[i])]

\* the rows of results_df without the aggregation per ID
SelectFrom_uncollapsed(mdf, select_df) ==
    LET groups           == GroupsByID(select_df)
        selected_matches == [i \in DOMAIN groups |-> FrameColumns(select_best_rows(groups[i]))]
    IN  SelectSeq(mdf, LAMBDA r : r.ID \notin IDs(selected_matches)) \o selected_matches

\* select_matches from the sorted select_df on: tie-break per ID, the other
\* IDs re-merged, one aggregated row per ID
SelectFrom(mdf, select_df) ==
    LET groups           == GroupsByID(select_df)
        selected_matches == [i \in DOMAIN groups |-> FrameColumns(select_best_rows(groups[i]))]
        subset_df1       == SelectSeq(mdf, LAMBDA r : r.ID \notin IDs(selected_matches))
        results_df       == subset_df1 \o selected_matches
        collapsed        == GroupsByID(results_df)
    IN  [i \in DOMAIN collapsed |-> Collapse(collapsed[i])]

\* the outcomes of select_matches for the frame returned by get_matches
select_matches(mdf) ==
    {SelectFrom(mdf, select_df) : select_df \in SortedByID(GroupsByID(SelectRows(mdf)))}

\* the two guards of create_service_variable
Guards(frame, sel) ==
    IF ~(IDs(frame) \subseteq IDs(sel)) THEN "ValueError: Not all IDs from input are in output"
    ELSE IF Len(frame) # Len(sel) THEN "ValueError: Length of input and output differs"
    ELSE "ok"


-----------------------------------------------------------------------------
(* Specification SpecLegacy: create_service_variable of main_old.py on a
   batch of records: preprocess_data, get_matches, select_matches and the two
   guards *)

MaxRecordsOld == 1

MaxHitsOld == 3

Ratios_old == {90, 95}

\* threshold_parameter, on the scale of the ratios
Thresholds_old == {85, 90}

\* one raw hit (label, start, end, ratio, pattern) of the legacy matcher
Hits_old(doc) ==
    [start : 0..(Len(doc) - 1), end : 1..Len(doc), ratio : Ratios_old,
     pattern : Vocabulary_old]

RECURSIVE SubsetsUpTo(_, _)
\* the subsets of S with at most n elements
SubsetsUpTo(S, n) ==
    IF n = 0 THEN {{}}
    ELSE LET smaller == SubsetsUpTo(S, n - 1)
         IN  smaller \cup {T \cup {x} : T \in smaller, x \in S}

\* what the legacy matcher may return: up to n hits, the ratio being a
\* function of pattern and span; the order of the hits is left open here
\* and settled, together with the order sort_values leaves, in SortedByID
MatcherResults_old(doc, n) ==
    {hs \in SubsetsUpTo({h \in Hits_old(doc) : h.start < h.end}, n) :
        \A g, h \in hs :
            (g.pattern = h.pattern /\ g.start = h.start /\ g.end = h.end) => g = h}

RECURSIVE SetToSeq(_)
\* the elements of a set, one after the other
SetToSeq(S) ==
    IF S = {} THEN <<>>
    ELSE LET x == CHOOSE y \in S : TRUE
         IN  <<x>> \o SetToSeq(S \ {x})

RECURSIVE BatchResults_old(_, _, _)
\* the hits of the rows k.. of the frame, n hits at most over all the rows
BatchResults_old(frame, k, n) ==
    IF k > Len(frame) THEN {<<>>}
    ELSE UNION {{<<SetToSeq(hs)>> \o rest :
                    rest \in BatchResults_old(frame, k + 1, n - Cardinality(hs))} :
                hs \in MatcherResults_old(Tokens(frame[k].Preprocessed_text), n)}

legacyVars == <<pass1, max_per_match_id, only_first_match, results, out_atomic,
                out_multi, prev_kept, prev_threshold, df_data, df_references,
                merged_df>>

LegacyInit ==
    /\ pc = "start"
    /\ chain = "legacy"
    /\ input_col \in SeqsUpTo(Texts_old, MaxRecordsOld)
    /\ threshold \in Thresholds_old
    /\ df = <<>>
    /\ pass1 = <<>>
    /\ matches = <<>>
    /\ max_per_match_id = 0
    /\ only_first_match = FALSE
    /\ results = <<>>
    /\ out_atomic = EmptyFrame
    /\ out_multi = EmptyFrame
    /\ prev_kept = <<>>
    /\ prev_threshold = 0
    /\ matches_df = <<>>
    /\ selected = <<>>
    /\ outcome = "none"
    /\ df_data = <<>>
    /\ df_references = <<>>
    /\ merged_df = <<>>

\* the exception of pd.DataFrame([]).sort_values(by="ID"): a frame built from
\* no row has no column ID
KeyErrorID == "KeyError: 'ID'"

\* get_matches of the legacy module on the preprocessed frame; for a batch
\* without record the sort of the empty results frame raises
GetMatchesOld ==
    /\ pc = "preprocessed"
    /\ IF df = <<>>
       THEN /\ outcome' = KeyErrorID
            /\ pc' = "raised"
            /\ UNCHANGED matches_df
       ELSE /\ \E mss \in BatchResults_old(df, 1, MaxHitsOld) :
                  matches_df' \in get_matches_old(df, mss, threshold)
            /\ pc' = "matched"
            /\ UNCHANGED outcome
    /\ UNCHANGED <<chain, input_col, df, threshold, matches, selected>>

\* select_matches on the frame of get_matches
SelectMatches ==
    /\ pc = "matched"
    /\ selected' \in select_matches(matches_df)
    /\ pc' = "selected"
    /\ UNCHANGED <<chain, input_col, df, threshold, matches, matches_df, outcome>>

\* the guards of create_service_variable on the collapsed frame
CheckGuards ==
    /\ pc = "selected"
    /\ outcome' = Guards(df, selected)
    /\ pc' = "done"
    /\ UNCHANGED <<chain, input_col, df, threshold, matches, matches_df, selected>>

LegacyNext ==
    \/ PreprocessDataOld /\ UNCHANGED <<matches, threshold, matches_df, selected, outcome>>
                         /\ UNCHANGED legacyVars
    \/ GetMatchesOld /\ UNCHANGED legacyVars
    \/ SelectMatches /\ UNCHANGED legacyVars
    \/ CheckGuards /\ UNCHANGED legacyVars

SpecLegacy == LegacyInit /\ [][LegacyNext]_vars

\* the raw candidates of record k, in the order of the frame of get_matches
RawCandidates(k) == RowsOf(matches_df, df[k].ID)

\* C5: in the legacy collapser, for a record without split indicator and with
\* more than one raw candidate, whenever some candidate's canonical entry
\* equals the input text verbatim, the first such candidate is the one
\* selected, whatever the scores, containment flags and edit distances of the
\* other candidates.
ExactMatchWins ==
    (pc \in {"selected", "done"}) =>
        \A k \in DOMAIN df :
            LET cands == RawCandidates(k)
            IN  (/\ ~ContainsSplit(df[k].Preprocessed_text)
                 /\ Len(cands) > 1
                 /\ \E i \in DOMAIN cands : exact_match(cands[i]) = 1)
                => LET e   == cands[FirstOne([i \in DOMAIN cands |-> exact_match(cands[i])])]
                       out == RowsOf(selected, df[k].ID)
                   IN  /\ Len(out) = 1
                       /\ out[1].matched_to = e.matched_to
                       /\ out[1].similarity = e.similarity
                       /\ out[1].match = e.match

\* an exact candidate that is neither first nor best scored has been selected
\* ahead of a containing candidate with the higher score
ExactMatchWinsWitness ==
    /\ pc = "selected"
    /\ ~ContainsSplit(df[1].Preprocessed_text)
    /\ Len(RawCandidates(1)) > 1
    /\ RawCandidates(1)[1].matched_to = CisplatinMono
    /\ RawCandidates(1)[1].similarity = DigitStr(95)
    /\ \E i \in DOMAIN RawCandidates(1) :
          /\ exact_match(RawCandidates(1)[i]) = 1
          /\ RawCandidates(1)[i].similarity = DigitStr(90)
    /\ selected[1].matched_to = Cisplatin


-----------------------------------------------------------------------------
(* Protocols: get_matches_protocol, sort_row, fuzzy_match, get_codes and
   merge_frame of utils.py.
   A row of the data frame is [Original, Preprocessed, Extracted_Codes,
   Similarity_Score, slots] and a row of the reference table [slots, code];
   slots[i] is the cell of column substanz_i, Null for NaN. *)

\* the characters of the model in code-point order
CodePoints ==
    <<" ", "+", ",", "-", "/">> \o DigitChars \o <<";">> \o UpperCase
    \o <<"_">> \o LowerCase

Ord(c) == CHOOSE i \in DOMAIN CodePoints : CodePoints[i] = c

RECURSIVE StrLess(_, _)
\* a < b for two strings
StrLess(a, b) ==
    IF b = <<>> THEN FALSE
    ELSE IF a = <<>> THEN TRUE
    ELSE IF Head(a) = Head(b) THEN StrLess(Tail(a), Tail(b))
    ELSE Ord(Head(a)) < Ord(Head(b))

RECURSIVE InsertAsc(_, _)
\* v inserted behind every element that is not greater
InsertAsc(sorted, v) ==
    IF sorted = <<>> THEN <<v>>
    ELSE IF StrLess(v, Head(sorted)) THEN <<v>> \o sorted
    ELSE <<Head(sorted)>> \o InsertAsc(Tail(sorted), v)

RECURSIVE SortAsc(_)

SortAsc_unsorted(values) == values

\* values.sort()
SortAsc(values) ==
    IF values = <<>> THEN <<>>
    ELSE InsertAsc(SortAsc(SubSeq(values, 1, Len(values) - 1)), values[Len(values)])

\* row[required_columns].dropna().astype(str).tolist()
DropNa(row, required_columns) ==
    SelectSeq([i \in DOMAIN required_columns |-> row[required_columns[i]]],
              LAMBDA v : ~IsNull(v))

\* sort_row: the cells of the required columns of a row, sorted and padded
sort_row(row, required_columns) ==
    LET values == SortAsc(DropNa(row, required_columns))
    IN  values \o [i \in 1..(Len(required_columns) - Len(values)) |-> Null]

\* out[required_columns] = out.apply(sort_row), for one row of slot cells:
\* the columns that are not required keep their cells
SortSlots(slots, required_columns) ==
    LET sorted == sort_row(slots, required_columns)
    IN  [i \in DOMAIN slots |->
            IF \E j \in DOMAIN required_columns : required_columns[j] = i
            THEN sorted[CHOOSE j \in DOMAIN required_columns : required_columns[j] = i]
            ELSE slots[i]]

\* one substance per hit of the sorted hits
ProtocolSubstances_every(ms, thr) ==
    LET sorted == SortDesc(FilteredMatches(ms, thr), <<>>)
    IN  [i \in DOMAIN sorted |-> sorted[i].match_id]

\* the substances written to substanz_1.. for one record: one per entry, in
\* the order of the sorted hits
ProtocolSubstances(ms, thr) ==
    LET sorted == SortDesc(FilteredMatches(ms, thr), <<>>)
    IN  Dedup([i \in DOMAIN sorted |-> sorted[i].match_id], {})

\* fuzzy_match: the code found for the text and its score; the scorer is not
\* modelled, a code is found when it equals the text
fuzzy_match(text, ref_codes) ==
    IF \E i \in DOMAIN ref_codes : ref_codes[i] = text
    THEN [code |-> text, score |-> DigitStr(100)]
    ELSE [code |-> Null, score |-> Null]

Max2(a, b) == IF a >= b THEN a ELSE b

RECURSIVE MaxLen(_)
\* the longest of a sequence of sequences
MaxLen(ss) == IF ss = <<>> THEN 0 ELSE Max2(Len(Head(ss)), MaxLen(Tail(ss)))

\* the frame of get_matches_protocol with the missing required columns added:
\* subs[k] are the substances of record k, n the number of required columns
ProtocolFrame(frame, extracted, subs, n) ==
    LET width == Max2(n, MaxLen(subs))
    IN  [k \in DOMAIN frame |->
            [Original         |-> frame[k].Original,
             Preprocessed     |-> frame[k].Preprocessed_text,
             Extracted_Codes  |-> extracted[k].code,
             Similarity_Score |-> extracted[k].score,
             slots            |-> subs[k] \o [i \in 1..(width - Len(subs[k])) |-> Null]]]

\* get_codes from the frame of get_matches_protocol on
SortedFrame(out, required_columns) ==
    [k \in DOMAIN out |-> [out[k] EXCEPT !.slots = SortSlots(@, required_columns)]]

\* df_references[required_columns] = df_references.apply(sort_row)
SortedReferences(refs, required_columns) ==
    [k \in DOMAIN refs |-> [refs[k] EXCEPT !.slots = sort_row(@, required_columns)]]

\* the dtype of a key column after the rows were written back: float64 when
\* every cell is NaN, object when it holds a string
KeyKind(frame, c) ==
    IF \A k \in DOMAIN frame : IsNull(frame[k].slots[c]) THEN "float64" ELSE "object"

\* pd.merge raises ValueError when a key column is float64 on one side and
\* holds strings on the other
MergeRaises(left, right, merge_columns) ==
    \E j \in DOMAIN merge_columns :
        KeyKind(left, merge_columns[j]) # KeyKind(right, merge_columns[j])

\* the rows of the right frame with the key of the row l; NaN keys match
KeyMatches(l, right, merge_columns) ==
    SelectSeq(right, LAMBDA r : \A j \in DOMAIN merge_columns :
                                    l.slots[merge_columns[j]] = r.slots[merge_columns[j]])

\* the rows of the left join for one row of the left frame
JoinedRows(l, right, merge_columns) ==
    LET found == KeyMatches(l, right, merge_columns)
        joined(code) ==
            [Original |-> l.Original, Preprocessed |-> l.Preprocessed,
             Extracted_Codes |-> l.Extracted_Codes,
             Similarity_Score |-> l.Similarity_Score, slots |-> l.slots, code |-> code]
    IN  IF found = <<>> THEN <<joined(Null)>>
        ELSE [i \in DOMAIN found |-> joined(found[i].code)]

RECURSIVE LeftJoin(_, _, _)
\* pd.merge(left, right, on=merge_columns, how='left')
LeftJoin(left, right, merge_columns) ==
    IF left = <<>> THEN <<>>
    ELSE JoinedRows(Head(left), right, merge_columns)
         \o LeftJoin(Tail(left), right, merge_columns)

\* the string 'NaN'
NaNString == <<"N", "a", "N">>

\* astype(str).replace('nan', 'NaN').fillna('NaN'), for one cell
AsNaNString(v) == IF IsNull(v) \/ v = <<"n", "a", "n">> THEN NaNString ELSE v

\* the fallback loop over the merge columns of one frame
WithNaNStrings(frame, merge_columns) ==
    [k \in DOMAIN frame |->
        [frame[k] EXCEPT !.slots =
            [i \in DOMAIN @ |->
                IF \E j \in DOMAIN merge_columns : merge_columns[j] = i
                THEN AsNaNString(@[i]) ELSE @[i]]]]

mask_isna_only(row, merge_columns) ==
    \A j \in DOMAIN merge_columns : IsNull(row.slots[merge_columns[j]])

\* mask_all_nan_or_empty, for one row
mask_all_nan_or_empty(row, merge_columns) ==
    \A j \in DOMAIN merge_columns :
        IsNull(row.slots[merge_columns[j]]) \/ row.slots[merge_columns[j]] = NaNString

\* merged_df.loc[mask_all_nan_or_empty, "code"] = np.nan
Masked(merged, merge_columns) ==
    [k \in DOMAIN merged |->
        IF mask_all_nan_or_empty(merged[k], merge_columns)
        THEN [merged[k] EXCEPT !.code = Null] ELSE merged[k]]

-----------------------------------------------------------------------------
(* Specification SpecProtocol: create_protocol_service_var on a batch of
   protocol texts and a protocol reference table: get_codes, then merge_frame *)

\* len(required_columns)
NumSlots == 2

MaxRefRows == 2

MaxProtocols == 1

\* hits the matcher reports over the whole batch
MaxProtocolHits == 2

\* required_columns: substanz_1 .. substanz_NumSlots
required_columns == [i \in 1..NumSlots |-> i]

GemCis == <<"G", "e", "m", "-", "C", "i", "s">>

\* the protocol free texts of the model
ProtocolTexts == {GemCis}

\* reference_list_protocol["code"] of row k
Code(k) == IF k = 1 THEN GemCis ELSE <<"P">> \o DigitStr(k)

\* the slot cells of a reference row: every substance at most once, in any
\* columns
ReferenceSlots ==
    {t \in [1..NumSlots -> Vocabulary \cup {Null}] :
        \A i, j \in 1..NumSlots : (t[i] = t[j] /\ ~IsNull(t[i])) => i = j}

\* the protocol reference tables of the model
ReferenceTables ==
    UNION {{[k \in 1..n |-> [slots |-> t[k], code |-> Code(k)]] :
                t \in [1..n -> ReferenceSlots]} : n \in 1..MaxRefRows}

ProtocolRatios == {85, 90}

\* threshold of create_protocol_service_var, in hundredths
ProtocolThresholds == {90}

RECURSIVE ProtocolBatchResults(_, _, _)
\* the hit lists of the rows k.. of the frame, n hits at most over all the rows
ProtocolBatchResults(frame, k, n) ==
    IF k > Len(frame) THEN {<<>>}
    ELSE UNION {{<<ms>> \o rest : rest \in ProtocolBatchResults(frame, k + 1, n - Len(ms))} :
                ms \in MatcherResults(Tokens(frame[k].Preprocessed_text), ProtocolRatios, n)}

protocolVars == <<chain, pass1, matches, max_per_match_id, only_first_match, out_atomic,
                  out_multi, prev_kept, prev_threshold, matches_df, selected>>

ProtocolInit ==
    /\ pc = "start"
    /\ chain = "current"
    /\ input_col \in SeqsUpTo(ProtocolTexts, MaxProtocols) \ {<<>>}
    /\ df_references \in ReferenceTables
    /\ threshold \in ProtocolThresholds
    /\ df = <<>>
    /\ pass1 = <<>>
    /\ matches = <<>>
    /\ max_per_match_id = 0
    /\ only_first_match = FALSE
    /\ results = <<>>
    /\ out_atomic = EmptyFrame
    /\ out_multi = EmptyFrame
    /\ prev_kept = <<>>
    /\ prev_threshold = 0
    /\ matches_df = <<>>
    /\ selected = <<>>
    /\ outcome = "none"
    /\ df_data = <<>>
    /\ merged_df = <<>>

\* get_codes: results is the frame of get_matches_protocol with the missing
\* required columns added, df_data the frame get_codes returns
GetCodes ==
    /\ pc = "start"
    /\ df' = preprocess_data(input_col)
    /\ \E subs \in {[k \in DOMAIN df' |-> ProtocolSubstances(mss[k], threshold)] :
                        mss \in ProtocolBatchResults(df', 1, MaxProtocolHits)} :
          LET ref_codes == [k \in DOMAIN df_references |-> df_references[k].code]
              extracted == [k \in DOMAIN df' |-> fuzzy_match(df'[k].Original, ref_codes)]
          IN  /\ results' = ProtocolFrame(df', extracted, subs, NumSlots)
              /\ df_data' = SortedFrame(results', required_columns)
    /\ pc' = "codes"
    /\ UNCHANGED <<input_col, threshold, df_references, merged_df, outcome>>

\* merge_frame: the reference rows are sorted in place; the join, on the
\* fallback path after both frames had their nulls rewritten in place; the mask
MergeFrame ==
    /\ pc = "codes"
    /\ LET sorted == SortedReferences(df_references, required_columns)
       IN  IF MergeRaises(df_data, sorted, required_columns)
           THEN /\ df_data' = WithNaNStrings(df_data, required_columns)
                /\ df_references' = WithNaNStrings(sorted, required_columns)
                /\ merged_df' = Masked(LeftJoin(df_data', df_references', required_columns),
                                       required_columns)
                /\ outcome' = "fallback"
           ELSE /\ df_references' = sorted
                /\ merged_df' = Masked(LeftJoin(df_data, sorted, required_columns),
                                       required_columns)
                /\ outcome' = "normal"
                /\ UNCHANGED df_data
    /\ pc' = "done"
    /\ UNCHANGED <<input_col, threshold, df, results>>

ProtocolNext ==
    \/ GetCodes /\ UNCHANGED protocolVars
    \/ MergeFrame /\ UNCHANGED protocolVars

SpecProtocol == ProtocolInit /\ [][ProtocolNext]_vars


\* the cells of the required columns of a row of slot cells
Required(slots) == [i \in 1..NumSlots |-> slots[i]]

\* how often the value v occurs in the sequence s
Occurrences(s, v) == Cardinality({i \in DOMAIN s : s[i] = v})

\* r holds the non-null cells of raw in ascending order, left-packed, in
\* exactly NumSlots slots
IsCanonicalOf(r, raw) ==
    /\ Len(r) = NumSlots
    /\ \A i \in 1..(NumSlots - 1) : IsNull(r[i]) => IsNull(r[i + 1])
    /\ \A i \in 1..(NumSlots - 1) :
          (~IsNull(r[i]) /\ ~IsNull(r[i + 1])) => ~StrLess(r[i + 1], r[i])
    /\ \A v \in (Range(r) \cup Range(raw)) \ {Null} : Occurrences(r, v) = Occurrences(raw, v)

\* the rows of slot cells that sort_row is handed in the run: the rows of
\* get_matches_protocol and the rows of the reference table
RowsToSort ==
    {Required(results[k].slots) : k \in DOMAIN results}
    \cup (IF pc = "done" THEN {} ELSE {df_references[k].slots : k \in DOMAIN df_references})

\* C6: sort_row is invariant under permutation of its input: however the
\* non-null names are placed in the slot columns, the result is the names in
\* ascending order, left-packed, the remaining slots null, in exactly
\* len(required_columns) slots; sort_row applied twice gives what it gives
\* applied once; get_codes and merge_frame leave such rows.
SortRowCanonical ==
    /\ \A raw \in RowsToSort :
          LET once == sort_row(raw, required_columns)
          IN  /\ IsCanonicalOf(once, raw)
              /\ sort_row(once, required_columns) = once
              /\ \A p \in Permutations(1..NumSlots) :
                    sort_row([i \in 1..NumSlots |-> raw[p[i]]], required_columns) = once
    /\ (pc = "codes") =>
          \A k \in DOMAIN df_data :
              /\ Len(df_data[k].slots) = Len(results[k].slots)
              /\ IsCanonicalOf(Required(df_data[k].slots), Required(results[k].slots))
    /\ (pc = "done" /\ outcome = "normal") =>
          \A k \in DOMAIN df_references :
              IsCanonicalOf(df_references[k].slots, df_references[k].slots)

\* Gemcitabin was discovered before Cisplatin, and get_codes has put Cisplatin
\* first
SortRowCanonicalWitness ==
    /\ pc = "codes"
    /\ Required(results[1].slots) = <<GemcitabinName, Cisplatin>>
    /\ Required(df_data[1].slots) = <<Cisplatin, GemcitabinName>>

\* C10: after merge_frame every output row whose substance slots are all
\* null (NaN, or the string 'NaN' of the fallback path) has a null code,
\* also when the reference table has rows whose slots are all null, on the
\* normal join path and on the fallback path.
AllNullSlotsNullCode ==
    (pc = "done") =>
        \A k \in DOMAIN merged_df :
            (\A i \in 1..NumSlots : merged_df[k].slots[i] \in {Null, NaNString})
            => IsNull(merged_df[k].code)

\* the fallback path was taken, and a record without substance has met a
\* reference row whose slots are all null
AllNullSlotsNullCodeWitness ==
    /\ pc = "done"
    /\ outcome = "fallback"
    /\ \E k \in DOMAIN df_references :
          \A i \in 1..NumSlots : df_references[k].slots[i] = NaNString
    /\ \E k \in DOMAIN merged_df :
          /\ \A i \in 1..NumSlots : merged_df[k].slots[i] = NaNString
          /\ IsNull(merged_df[k].code)

\* C11: create_protocol_service_var returns exactly one row per input protocol
\* record, also when rows of the reference table share their sorted slot
\* tuple or several rows have all-null slots.
ProtocolOneRowPerRecord ==
    (pc = "done") => Len(merged_df) = Len(input_col)

-----------------------------------------------------------------------------
(* Specification SpecThreshold: the threshold filter of get_matches, of the
   current and of the legacy module, applied to the raw hits of one record *)

MaxFilterHits == 2

\* ratios the matcher reports, among them values equal to a threshold
FilterRatios == {55, 85, 90}

\* threshold in hundredths (current module), threshold_parameter (legacy)
FilterThresholds == {55, 85, 90}

\* the raw hits (match_id, start, end, ratio, pattern) of matcher(doc)
FilterHits(doc) ==
    {[match_id |-> h.match_id, start |-> h.start, end |-> h.end, ratio |-> h.ratio,
      pattern |-> h.match_id] : h \in {g \in Hits(doc, FilterRatios) : g.start < g.end}}

thresholdVars == <<chain, input_col, df, pass1, matches, threshold, max_per_match_id,
                   only_first_match, out_atomic, out_multi, prev_kept, prev_threshold,
                   selected, outcome, df_data, df_references, merged_df>>

ThresholdInit ==
    /\ pc = "filter"
    /\ chain \in {"current", "legacy"}
    /\ input_col = <<Cisplatin>>
    /\ df = IF chain = "current" THEN preprocess_data(input_col)
            ELSE preprocess_data_old(input_col)
    /\ pass1 = <<>>
    /\ \E ms \in SeqsUpTo(FilterHits(Tokens(df[1].Preprocessed_text)), MaxFilterHits) :
          matches = <<ms>>
    /\ threshold \in FilterThresholds
    /\ max_per_match_id = 0
    /\ only_first_match = FALSE
    /\ results = <<>>
    /\ out_atomic = EmptyFrame
    /\ out_multi = EmptyFrame
    /\ prev_kept = <<>>
    /\ prev_threshold = 0
    /\ matches_df = <<>>
    /\ selected = <<>>
    /\ outcome = "none"
    /\ df_data = <<>>
    /\ df_references = <<>>
    /\ merged_df = <<>>

\* matches_filtered of get_matches (current module)
FilterCurrent ==
    /\ pc = "filter"
    /\ chain = "current"
    /\ results' = FilteredMatches(matches[1], threshold)
    /\ pc' = "filtered"
    /\ UNCHANGED matches_df

\* the loop over the matches of get_matches (legacy module)
FilterLegacy ==
    /\ pc = "filter"
    /\ chain = "legacy"
    /\ matches_df' = RecordRows(df[1], matches[1], threshold)
    /\ pc' = "filtered"
    /\ UNCHANGED results

ThresholdNext ==
    \/ FilterCurrent /\ UNCHANGED thresholdVars
    \/ FilterLegacy /\ UNCHANGED thresholdVars

SpecThreshold == ThresholdInit /\ [][ThresholdNext]_vars

\* the raw hit m of the record was passed on to selection
PassedOn(m) ==
    IF chain = "current"
    THEN \E j \in DOMAIN results : results[j] = m
    ELSE \E j \in DOMAIN matches_df :
            /\ matches_df[j].matched_to = m.pattern
            /\ matches_df[j].match = SpanText(Tokens(df[1].Preprocessed_text), m.start, m.end)
            /\ matches_df[j].similarity = DigitStr(m.ratio)

\* C12: in every get_matches variant a raw hit is passed on to selection if
\* and only if its similarity is at least the threshold on the same scale; a
\* hit whose similarity equals the threshold is retained.
ThresholdInclusive ==
    (pc = "filtered") =>
        \A i \in DOMAIN matches[1] :
            PassedOn(matches[1][i]) <=> matches[1][i].ratio >= threshold

\* C13: when fuzzy matching raises for one record of a batch, get_matches
\* still returns a frame for the whole batch, with one row per record, the
\* failing record's hit fields null.
MatchingFailureIsolated ==
    (outcome = "raised") =>
        /\ pc = "done"
        /\ Len(out_multi.rows) = Len(input_col)
        /\ \A c \in Range(out_multi.columns) \ {OriginalCol, PreprocessedCol} :
              out_multi.rows[Len(results) + 1][c] = NaN

\* the two ValueErrors of create_service_variable
GuardErrors ==
    {"ValueError: Not all IDs from input are in output",
     "ValueError: Length of input and output differs"}

\* every input ID is carried by exactly one row of the frame of
\* select_matches, and by no other row
EachIDOnce ==
    /\ IDs(selected) = IDs(df)
    /\ \A k \in DOMAIN df : Len(RowsOf(selected, df[k].ID)) = 1

SplitExamples ==
    {<<"a", "/", "b">>, <<"a", ",", "b">>, <<"a", ";", "b">>, <<"a", "+", "b">>,
     <<"a", " ", "u", "n", "d", " ", "b">>, <<"a", " ", "U", "n", "D", " ", "b">>,
     <<"o", "d", "e", "r">>, <<"a", " ", "O", "D", "E", "R", " ", "b">>}

\* texts in which und / oder is only part of a word
NoSplitExamples ==
    {<<"B", "u", "n", "d">>, <<"u", "n", "d", "e", "r">>, <<"o", "d", "e", "r", "n">>,
     <<"a", " ", "b", "-", "c">>, Cisplatin}

\* the column col of the rows rs
Column(rs, col) == [i \in DOMAIN rs |-> rs[i][col]]

\* C15: a record whose text has a split indicator is not subjected to the
\* tie-break: all its raw candidates appear in its single output row, joined
\* with "; "; a record without split indicator and with more than one raw
\* candidate is reduced to exactly one of them; a record with one raw
\* candidate, or the placeholder, passes through unchanged.
SplitBypassesTieBreak ==
    /\ (pc = "start") =>
          /\ \A t \in SplitExamples : ContainsSplit(t)
          /\ \A t \in NoSplitExamples : ~ContainsSplit(t)
    /\ (pc \in {"selected", "done"}) =>
          \A k \in DOMAIN df :
              LET cands == RawCandidates(k)
                  out   == RowsOf(selected, df[k].ID)
              IN  /\ Len(out) = 1
                  /\ IF ContainsSplit(df[k].Preprocessed_text)
                     THEN /\ out[1].match = Join(SemicolonSpace, Column(cands, "match"))
                          /\ \A i \in DOMAIN cands :
                                /\ IsSubstring(cands[i].matched_to, out[1].matched_to)
                                /\ IsSubstring(cands[i].similarity, out[1].similarity)
                     ELSE IF Len(cands) > 1
                     THEN \E i \in DOMAIN cands : out[1] = cands[i]
                     ELSE out[1] = cands[1]

\* a record with a split indicator and candidates for two entries has both in
\* its output row
SplitBypassesTieBreakWitness ==
    /\ pc = "selected"
    /\ ContainsSplit(df[1].Preprocessed_text)
    /\ Len(RawCandidates(1)) = 2
    /\ RawCandidates(1)[1].matched_to = Cisplatin
    /\ RawCandidates(1)[2].matched_to = Carboplatin
    /\ selected[1].matched_to = Cisplatin \o SemicolonSpace \o Carboplatin

-----------------------------------------------------------------------------
(* Specification SpecOrder: the row loop of get_matches on one record of two
   words, for the hit lists of the matcher with ratios at and above the
   thresholds *)

MaxOrderHits == 3

\* ratios the matcher reports in these runs
OrderRatios == {85, 90}

OrderInit ==
    /\ pc = "select"
    /\ chain = "current"
    /\ input_col = <<SelectText>>
    /\ df = preprocess_data(input_col)
    /\ pass1 = <<>>
    /\ \E ms \in MatcherResults(Tokens(df[1].Preprocessed_text), OrderRatios, MaxOrderHits) :
          matches = <<ms>>
    /\ threshold \in Thresholds
    /\ max_per_match_id \in 0..MaxCap
    /\ results = <<>>
    /\ prev_kept = <<>>
    /\ prev_threshold = 0
    /\ only_first_match = FALSE
    /\ out_atomic = EmptyFrame
    /\ out_multi = EmptyFrame
    /\ matches_df = <<>>
    /\ selected = <<>>
    /\ outcome = "none"
    /\ df_data = <<>>
    /\ df_references = <<>>
    /\ merged_df = <<>>

OrderNext == SelectRow /\ UNCHANGED selectVars

SpecOrder == OrderInit /\ [][OrderNext]_vars

\* C16: the candidates kept for a record are numbered 1..K without gaps and
\* their similarity does not increase with the number; kept candidates of
\* equal similarity keep the order in which the matcher returned them, and
\* the candidates the cap discards are those of an entry that come later in
\* this stable order.
StableKeptOrder ==
    (pc = "selected") =>
        LET ms   == matches[1]
            kept == results[1].kept
            doc  == Tokens(df[1].Preprocessed_text)
            Earlier(g, h) ==
                \/ ms[g].ratio > ms[h].ratio
                \/ (ms[g].ratio = ms[h].ratio /\ g < h)
            Passing  == {h \in DOMAIN ms : ms[h].ratio >= threshold}
            Survives ==
                {h \in Passing :
                    Cardinality({g \in Passing : /\ ms[g].match_id = ms[h].match_id
                                                 /\ Earlier(g, h)}) < max_per_match_id}
            cols == Range(RowKeys(results[1]))
        IN  /\ Len(kept) = Cardinality(Survives)
            /\ \A h \in Survives :
                  kept[Cardinality({g \in Survives : Earlier(g, h)}) + 1]
                      = [Hit |-> SpanText(doc, ms[h].start, ms[h].end),
                         Mapped_to |-> ms[h].match_id,
                         Similarity |-> ms[h].ratio]
            /\ \A i \in 1..(Len(kept) - 1) : kept[i].Similarity >= kept[i + 1].Similarity
            /\ \A i \in 1..(MaxOrderHits + 1) :
                  \A name \in HitColumns : Numbered(name, i) \in cols <=> i <= Len(kept)

\* three hits of one similarity, the first and the third of one entry on
\* different spans: under a cap of one the third is discarded, and the two
\* kept are numbered in the order of the matcher
StableKeptOrderWitness ==
    /\ pc = "selected"
    /\ max_per_match_id = 1
    /\ Len(matches[1]) = 3
    /\ \A i \in 1..3 : matches[1][i].ratio = 90
    /\ matches[1][1].match_id = GemcitabinName
    /\ matches[1][2].match_id = Cisplatin
    /\ matches[1][3].match_id = GemcitabinName
    /\ matches[1][1].start # matches[1][3].start
    /\ Len(results[1].kept) = 2
    /\ results[1].kept[1].Mapped_to = GemcitabinName
    /\ results[1].kept[2].Mapped_to = Cisplatin

-----------------------------------------------------------------------------
(* Specification SpecBestRows: select_best_rows on the group of one ID, as
   select_matches hands it over: two or more candidate rows of one input text *)

MaxGroup == 3

\* input texts of the groups: a reference entry in lower case, a misspelt
\* entry, and an entry verbatim
GroupTexts == {LowerStr(Cisplatin), Cisplatn, Cisplatin}

\* the candidate rows of a record with the input text t
GroupRows(t) ==
    {[ID |-> 1, input |-> t, match |-> t, matched_to |-> v, similarity |-> DigitStr(r)] :
        v \in Vocabulary_old, r \in Ratios_old}

bestVars == <<chain, input_col, df, pass1, matches, threshold, max_per_match_id,
              only_first_match, results, out_atomic, out_multi, prev_kept,
              prev_threshold, outcome, df_data, df_references, merged_df>>

BestInit ==
    /\ pc = "group"
    /\ chain = "legacy"
    /\ \E t \in GroupTexts :
          /\ input_col = <<t>>
          /\ matches_df \in UNION {[1..n -> GroupRows(t)] : n \in 2..MaxGroup}
    /\ df = <<>>
    /\ pass1 = <<>>
    /\ matches = <<>>
    /\ threshold = 85
    /\ max_per_match_id = 0
    /\ only_first_match = FALSE
    /\ results = <<>>
    /\ out_atomic = EmptyFrame
    /\ out_multi = EmptyFrame
    /\ prev_kept = <<>>
    /\ prev_threshold = 0
    /\ selected = <<>>
    /\ outcome = "none"
    /\ df_data = <<>>
    /\ df_references = <<>>
    /\ merged_df = <<>>

\* groupby("ID").apply(select_best_rows) for the one group, then the columns
\* of the frame of get_matches
SelectBest ==
    /\ pc = "group"
    /\ selected' = <<FrameColumns(select_best_rows(
                        [i \in DOMAIN matches_df |-> WithColumns(matches_df[i])]))>>
    /\ pc' = "best"
    /\ UNCHANGED matches_df

BestNext == SelectBest /\ UNCHANGED bestVars

SpecBestRows == BestInit /\ [][BestNext]_vars

\* the least element of a non-empty set of positions
FirstOf(S) == CHOOSE i \in S : \A j \in S : i <= j

\* C17: when no candidate of the group is an exact match, the first candidate
\* whose canonical entry contains the input text (both lower-cased) is
\* selected, whatever the edit distances; when there is neither, the selected
\* candidate has the minimum edit distance over the group, and among those
\* with the minimum it is the first of the group.
ContainmentThenDistance ==
    (pc = "best") =>
        LET g         == matches_df
            exact     == {i \in DOMAIN g : g[i].input = g[i].matched_to}
            contained == {i \in DOMAIN g :
                            IsSubstring(LowerStr(g[i].input), LowerStr(g[i].matched_to))}
            dist(i)   == Levenshtein(g[i].input, g[i].matched_to)
            nearest   == {i \in DOMAIN g : \A j \in DOMAIN g : dist(i) <= dist(j)}
        IN  (exact = {}) =>
                IF contained # {}
                THEN selected = <<g[FirstOf(contained)]>>
                ELSE selected = <<g[FirstOf(nearest)]>>

\* a group without exact match: its first containing candidate was selected
\* although a later containing candidate is nearer in edit distance
ContainmentThenDistanceWitness ==
    /\ pc = "best"
    /\ input_col = <<LowerStr(Cisplatin)>>
    /\ Len(matches_df) = 3
    /\ matches_df[1].matched_to = Carboplatin
    /\ matches_df[2].matched_to = CisplatinMono
    /\ matches_df[3].matched_to = Cisplatin
    /\ selected[1].matched_to = CisplatinMono

\* the position of the first row of rs whose canonical entry is e
FirstWithEntry(rs, e) == FirstOf({i \in DOMAIN rs : rs[i].matched_to = e})

\* C18: in the aggregated output row of select_matches, matched_to and
\* similarity are de-duplicated by canonical entry: the two joined lists have
\* the same number of elements, the i-th similarity is the one of the first
\* candidate whose canonical entry is the i-th matched_to value, and the
\* order of first occurrence is kept.
DedupByEntry ==
    (pc \in {"selected", "done"}) =>
        \A k \in DOMAIN df :
            ContainsSplit(df[k].Preprocessed_text) =>
                LET cands   == RawCandidates(k)
                    out     == RowsOf(selected, df[k].ID)
                    entries == Dedup(Column(cands, "matched_to"), {})
                    scores  == [i \in DOMAIN entries |->
                                   cands[FirstWithEntry(cands, entries[i])].similarity]
                IN  /\ Len(out) = 1
                    /\ out[1].matched_to = Join(SemicolonSpace, entries)
                    /\ out[1].similarity = Join(SemicolonSpace, scores)

-----------------------------------------------------------------------------
(* Specification SpecSubstances: the row loop of get_matches_protocol on one
   protocol record of two words, for the hit lists of the matcher *)

MaxSubstanceHits == 3

substanceVars == <<chain, input_col, df, pass1, matches, threshold, max_per_match_id,
                   only_first_match, out_atomic, out_multi, prev_kept, prev_threshold,
                   matches_df, selected, outcome, df_data, df_references, merged_df>>

SubstancesInit ==
    /\ pc = "protocol_row"
    /\ chain = "current"
    /\ input_col = <<SelectText>>
    /\ df = preprocess_data(input_col)
    /\ \E ms \in MatcherResults(Tokens(df[1].Preprocessed_text), ProtocolRatios,
                                MaxSubstanceHits) :
          matches = <<ms>>
    /\ threshold \in ProtocolThresholds
    /\ pass1 = <<>>
    /\ max_per_match_id = 0
    /\ only_first_match = FALSE
    /\ results = <<>>
    /\ out_atomic = EmptyFrame
    /\ out_multi = EmptyFrame
    /\ prev_kept = <<>>
    /\ prev_threshold = 0
    /\ matches_df = <<>>
    /\ selected = <<>>
    /\ outcome = "none"
    /\ df_data = <<>>
    /\ df_references = <<>>
    /\ merged_df = <<>>

\* one pass of the row loop of get_matches_protocol and pd.DataFrame(results):
\* the slots are substanz_1..substanz_K of the record, no column is added
ProtocolRow ==
    /\ pc = "protocol_row"
    /\ results' = ProtocolFrame(df, [k \in DOMAIN df |-> [code |-> Null, score |-> Null]],
                                <<ProtocolSubstances(matches[1], threshold)>>, 0)
    /\ pc' = "substances"

SubstancesNext == ProtocolRow /\ UNCHANGED substanceVars

SpecSubstances == SubstancesInit /\ [][SubstancesNext]_vars

\* C19: the substance names get_matches_protocol writes into
\* substanz_1..substanz_K of a record are pairwise distinct, whatever number
\* of spans of the text match the same entry; they are the entries of the
\* hits that pass the threshold, and none of them is null.
SubstancesDistinct ==
    (pc = "substances") =>
        LET subs == results[1].slots
            ms   == matches[1]
        IN  /\ \A i, j \in DOMAIN subs : subs[i] = subs[j] => i = j
            /\ Range(subs) = {ms[h].match_id :
                                h \in {g \in DOMAIN ms : ms[g].ratio >= threshold}}
            /\ Null \notin Range(subs)

\* three spans of the text matched Cisplatin, and it was written once
SubstancesDistinctWitness ==
    /\ pc = "substances"
    /\ Len(matches[1]) = 3
    /\ \A h \in 1..3 : matches[1][h].match_id = Cisplatin /\ matches[1][h].ratio = 90
    /\ \A g, h \in 1..3 : matches[1][g].start = matches[1][h].start
                          /\ matches[1][g].end = matches[1][h].end => g = h
    /\ results[1].slots = <<Cisplatin>>

-----------------------------------------------------------------------------
(* Specification SpecLookup: create_protocol_service_var on one protocol
   record whose text names three substances, of which the matcher finds up to
   MaxLookupHits, with a reference table of NumSlots slot columns *)

MaxLookupHits == 3

\* all_subs: the substances of the slot columns of the reference table
LookupVocabulary == Vocabulary \cup {Carboplatin}

\* the slot cells of a reference row: every substance at most once
LookupSlots ==
    {t \in [1..NumSlots -> LookupVocabulary \cup {Null}] :
        \A i, j \in 1..NumSlots : (t[i] = t[j] /\ ~IsNull(t[i])) => i = j}

\* the protocol reference tables of up to n rows
LookupTables(n) ==
    UNION {{[k \in 1..rows |-> [slots |-> t[k], code |-> Code(k)]] :
                t \in [1..rows -> LookupSlots]} : rows \in 1..n}

\* a protocol text that names three substances
LookupText == Cisplatin \o <<" ">> \o GemcitabinName \o <<" ">> \o Carboplatin

\* the raw hits of matcher(doc) taken up here: a word of the text that is an
\* entry, found for that entry with a ratio at the threshold
LookupHits(doc) ==
    {h \in [match_id : LookupVocabulary, start : 0..(Len(doc) - 1), end : 1..Len(doc),
            ratio : ProtocolThresholds] :
        h.end = h.start + 1 /\ SpanText(doc, h.start, h.end) = h.match_id}

\* what matcher(doc) returns for the preprocessed text: up to MaxLookupHits of
\* these hits, in any order
LookupHitLists ==
    SeqsUpTo(LookupHits(Tokens(preprocess_data(<<LookupText>>)[1].Preprocessed_text)),
             MaxLookupHits)

lookupVars == <<chain, input_col, pass1, matches, threshold, max_per_match_id,
                only_first_match, out_atomic, out_multi, prev_kept, prev_threshold,
                matches_df, selected, df_references, merged_df, outcome>>

LookupInit ==
    /\ pc = "lookup"
    /\ chain = "current"
    /\ input_col = <<LookupText>>
    /\ \E ms \in LookupHitLists : matches = <<ms>>
    /\ df_references \in LookupTables(MaxRefRows)
    /\ threshold \in ProtocolThresholds
    /\ df = <<>>
    /\ pass1 = <<>>
    /\ max_per_match_id = 0
    /\ only_first_match = FALSE
    /\ results = <<>>
    /\ out_atomic = EmptyFrame
    /\ out_multi = EmptyFrame
    /\ prev_kept = <<>>
    /\ prev_threshold = 0
    /\ matches_df = <<>>
    /\ selected = <<>>
    /\ outcome = "none"
    /\ df_data = <<>>
    /\ merged_df = <<>>

\* get_codes for the hits the matcher returned for the record
LookupCodes ==
    /\ pc = "lookup"
    /\ df' = preprocess_data(input_col)
    /\ LET ref_codes == [k \in DOMAIN df_references |-> df_references[k].code]
           extracted == [k \in DOMAIN df' |-> fuzzy_match(df'[k].Original, ref_codes)]
           subs      == [k \in DOMAIN df' |-> ProtocolSubstances(matches[k], threshold)]
       IN  /\ results' = ProtocolFrame(df', extracted, subs, NumSlots)
           /\ df_data' = SortedFrame(results', required_columns)
    /\ pc' = "codes"

LookupNext ==
    \/ LookupCodes /\ UNCHANGED lookupVars
    \/ MergeFrame /\ UNCHANGED protocolVars

SpecLookup == LookupInit /\ [][LookupNext]_vars

\* the set of non-null slot values of a row
SubstanceSet(slots) == Range(slots) \ {Null, NaNString}

\* no two reference entries have the same substance set
DistinctSubstanceSets ==
    \A i, j \in DOMAIN df_references :
        SubstanceSet(df_references[i].slots) = SubstanceSet(df_references[j].slots) => i = j

\* C20: for a record with a non-empty matched substance set S and a reference
\* table with distinct substance sets, the record is given code c if and only
\* if the reference entry with code c has the substance set S, whatever the
\* order of discovery and the slot positions in the reference row; a record
\* whose S is the set of no reference entry is emitted with code null.
CodeIffSameSet ==
    (pc = "done") =>
        LET S       == SubstanceSet(results[1].slots)
            entries == {k \in DOMAIN df_references :
                            SubstanceSet(df_references[k].slots) = S}
        IN  (S # {} /\ DistinctSubstanceSets) =>
                /\ \A k \in DOMAIN df_references :
                      (\E r \in DOMAIN merged_df : merged_df[r].code = df_references[k].code)
                      <=> k \in entries
                /\ (entries = {}) =>
                      (Len(merged_df) = 1 /\ IsNull(merged_df[1].code))

\* C21: merge_frame and create_protocol_service_var leave the protocol
\* reference table of the caller as it was: no step of the run changes a cell
\* of reference_list_protocol, neither the order of the slots within a row
\* nor the null of an empty slot, on the normal join path and on the fallback
\* path.
ReferenceTableUnchanged == [][df_references' = df_references]_vars

-----------------------------------------------------------------------------
(* Specification SpecCallPaths: the threshold filter of get_matches_protocol
   on one record, reached through get_codes and called directly *)

MaxCallHits == 2

\* the threshold argument of get_matches_protocol, a double: n hundredths,
\* and a little more when excess holds
Fraction(thr) == [hundredths |-> thr, excess |-> FALSE]

\* threshold * 100 as get_codes hands it on, for the threshold thr/100
Times100(thr) == [hundredths |-> thr * 100, excess |-> thr \in RoundsUp]

\* m[3] >= threshold in get_matches_protocol, for an integer ratio
AtLeastArgument(ratio, arg) ==
    IF arg.excess THEN ratio * 100 > arg.hundredths ELSE ratio * 100 >= arg.hundredths

\* substanz_1.. of one record for the threshold argument arg
SubstancesFor(ms, arg) ==
    LET sorted == SortDesc(SelectSeq(ms, LAMBDA m : AtLeastArgument(m.ratio, arg)), <<>>)
    IN  Dedup([i \in DOMAIN sorted |-> sorted[i].match_id], {})

callVars == <<chain, input_col, df, pass1, matches, threshold, max_per_match_id,
              only_first_match, out_atomic, out_multi, prev_kept, prev_threshold,
              matches_df, selected, outcome, df_data, df_references, merged_df>>

CallInit ==
    /\ pc = "call"
    /\ chain \in {"get_codes", "direct"}
    /\ input_col = <<Cisplatin>>
    /\ df = preprocess_data(input_col)
    /\ \E ms \in SeqsUpTo(FilterHits(Tokens(df[1].Preprocessed_text)), MaxCallHits) :
          matches = <<ms>>
    /\ threshold \in ProtocolThresholds
    /\ pass1 = <<>>
    /\ max_per_match_id = 0
    /\ only_first_match = FALSE
    /\ results = <<>>
    /\ out_atomic = EmptyFrame
    /\ out_multi = EmptyFrame
    /\ prev_kept = <<>>
    /\ prev_threshold = 0
    /\ matches_df = <<>>
    /\ selected = <<>>
    /\ outcome = "none"
    /\ df_data = <<>>
    /\ df_references = <<>>
    /\ merged_df = <<>>

\* the frame of get_matches_protocol for the threshold argument arg
CallFrame(arg) ==
    ProtocolFrame(df, [k \in DOMAIN df |-> [code |-> Null, score |-> Null]],
                  <<SubstancesFor(matches[1], arg)>>, 0)

\* get_codes: get_matches_protocol(protocol_df, all_subs, threshold * 100)
CallThroughGetCodes ==
    /\ pc = "call"
    /\ chain = "get_codes"
    /\ results' = CallFrame(Times100(threshold))
    /\ pc' = "extracted"

\* get_matches_protocol called with its own threshold, a fraction
CallDirect ==
    /\ pc = "call"
    /\ chain = "direct"
    /\ results' = CallFrame(Fraction(threshold))
    /\ pc' = "extracted"

CallNext ==
    \/ CallThroughGetCodes /\ UNCHANGED callVars
    \/ CallDirect /\ UNCHANGED callVars

SpecCallPaths == CallInit /\ [][CallNext]_vars

\* C22: substance-set extraction keeps a raw hit if and only if its
\* similarity on the 0..100 scale is at least threshold * 100 for the
\* fractional threshold (0.90 by default), through get_codes and when
\* get_matches_protocol is called directly: the slots hold the entries of
\* the hits at or above the threshold and no other.
ProtocolThresholdOnEveryPath ==
    (pc = "extracted") =>
        Range(results[1].slots) =
            {matches[1][h].match_id :
                h \in {g \in DOMAIN matches[1] : matches[1][g].ratio >= threshold}}

-----------------------------------------------------------------------------
(* Specification SpecVariants: the three get_matches implementations of the
   repository (src/src/spacy_matching/utils.py, src/src/utils.py,
   src/utils.py) called one after the other on the same preprocessed record,
   the same raw hits and the same parameters *)

MaxVariantHits == 2

\* ratios the matcher reports in these runs
VariantRatios == {85, 90}

\* the triples as src/utils.py and src/src/utils.py write them: Hit{i} is the
\* match_id, Mapped_to{i} is doc[start:end].text
EntryAsHit(kept) ==
    [i \in DOMAIN kept |-> [Hit        |-> kept[i].Mapped_to,
                            Mapped_to  |-> kept[i].Hit,
                            Similarity |-> kept[i].Similarity]]

\* the result_row of one record in src/utils.py and src/src/utils.py: the
\* filter, the sort and the cap are those of the package
ResultRow_entry_as_hit(row, ms, thr, cap) ==
    [ResultRow(row, ms, thr, cap) EXCEPT !.kept = EntryAsHit(@)]

\* what get_matches returns for the result rows rs
Returned(rs, first_only) ==
    IF first_only THEN AtomicView(DataFrame(rs)) ELSE DataFrame(rs)

variantVars == <<chain, input_col, df, pass1, matches, threshold, max_per_match_id,
                 only_first_match, out_atomic, out_multi, prev_kept, prev_threshold,
                 matches_df, selected, outcome, df_data, df_references, merged_df>>

VariantsInit ==
    /\ pc = "variants"
    /\ chain = "current"
    /\ input_col = <<SelectText>>
    /\ df = preprocess_data(input_col)
    /\ \E ms \in MatcherResults(Tokens(df[1].Preprocessed_text), VariantRatios,
                                MaxVariantHits) :
          matches = <<ms>>
    /\ threshold \in Thresholds
    /\ max_per_match_id \in 0..MaxCap
    /\ only_first_match \in BOOLEAN
    /\ pass1 = <<>>
    /\ results = <<>>
    /\ out_atomic = EmptyFrame
    /\ out_multi = EmptyFrame
    /\ prev_kept = <<>>
    /\ prev_threshold = 0
    /\ matches_df = <<>>
    /\ selected = <<>>
    /\ outcome = "none"
    /\ df_data = <<>>
    /\ df_references = <<>>
    /\ merged_df = <<>>

\* get_matches of src/src/spacy_matching/utils.py; its frame is results[1]
GetMatchesPackage ==
    /\ pc = "variants"
    /\ Len(results) = 0
    /\ results' = <<Returned(<<ResultRow(df[1], matches[1], threshold, max_per_match_id)>>,
                             only_first_match)>>
    /\ UNCHANGED pc

\* get_matches of src/src/utils.py; its frame is results[2]
GetMatchesSrcSrc ==
    /\ pc = "variants"
    /\ Len(results) = 1
    /\ results' = Append(results,
                     Returned(<<ResultRow_entry_as_hit(df[1], matches[1], threshold,
                                                       max_per_match_id)>>,
                              only_first_match))
    /\ UNCHANGED pc

\* get_matches of src/utils.py; its frame is results[3]
GetMatchesSrc ==
    /\ pc = "variants"
    /\ Len(results) = 2
    /\ results' = Append(results,
                     Returned(<<ResultRow_entry_as_hit(df[1], matches[1], threshold,
                                                       max_per_match_id)>>,
                              only_first_match))
    /\ pc' = "compared"

VariantsNext ==
    \/ GetMatchesPackage /\ UNCHANGED variantVars
    \/ GetMatchesSrcSrc /\ UNCHANGED variantVars
    \/ GetMatchesSrc /\ UNCHANGED variantVars

SpecVariants == VariantsInit /\ [][VariantsNext]_vars

\* the texts of the spans of the doc
SpanTexts(doc) ==
    {SpanText(doc, s, e) : s \in 0..(Len(doc) - 1), e \in 1..Len(doc)}

\* the column c is a Hit column, numbered or renamed by only_first_match
IsHitColumn(c) == StripTrailingDigits(c) = HitName

IsMappedColumn(c) == StripTrailingDigits(c) = MappedName

\* C23: the three get_matches implementations give identical output tables
\* for the same preprocessed record, raw hits, threshold, max_per_match_id
\* and only_first_match; in these tables a Hit column holds a span of the
\* preprocessed text and a Mapped_to column a canonical reference entry.
VariantsEquivalent ==
    (pc = "compared") =>
        /\ results[1] = results[2]
        /\ results[2] = results[3]
        /\ \A v \in 1..3 : \A c \in Range(results[v].columns) :
              LET cell == results[v].rows[1][c]
              IN  /\ (IsHitColumn(c) /\ ~cell.na) =>
                        cell.v \in SpanTexts(Tokens(df[1].Preprocessed_text))
                  /\ (IsMappedColumn(c) /\ ~cell.na) => cell.v \in Vocabulary

\* C24: the slot tuple get_codes and merge_frame use as join key holds every
\* distinct substance matched for the record, also when more substances
\* clear the threshold than there are columns in required_columns, and the
\* record is not given the code of a protocol whose substance set is a proper
\* subset of the matched set.
JoinKeyHoldsEveryMatch ==
    (pc \in {"codes", "done"}) =>
        LET S == SubstanceSet(results[1].slots)
        IN  /\ SubstanceSet(Required(df_data[1].slots)) = S
            /\ (pc = "done") =>
                  \A r \in DOMAIN merged_df : \A k \in DOMAIN df_references :
                      (merged_df[r].code = df_references[k].code)
                      => ~(/\ SubstanceSet(df_references[k].slots) \subseteq S
                           /\ SubstanceSet(df_references[k].slots) # S)


=============================================================================
